---- MODULE Spec2Model ----
(***************************************************************************)
(* Model of the API gateway request plane of chrisIM_rust: the circuit     *)
(* breaker and its middleware, the assembled middleware stack, and the     *)
(* rate-limit stage.                                                       *)
(*                                                                         *)
(* Strings of the program (paths, prefixes) are sequences of chunks; a     *)
(* chunk stands for a run of characters, so that starts_with is the        *)
(* prefix relation on sequences.                                           *)
(***************************************************************************)
EXTENDS Integers, Sequences, FiniteSets, TLC

\* ------------------------------------------------------------------------
\* Bounds
\* ------------------------------------------------------------------------
MaxNow == 3          \* the clock of the breaker runs over 0..MaxNow
MaxInflight == 2     \* request slots handled concurrently by the breaker middleware
MaxThreshold == 7    \* the largest failure_threshold configured
MaxTimeout == 2      \* the largest half_open_timeout_secs configured
MaxPipeInflight == 1 \* request slots of the assembled gateway
MaxRLNow == 1        \* the rate limiters' clock runs from 0 to MaxRLNow ticks
MaxRLInflight == 1   \* request slots of the rate-limit service
MaxBkNow == 2        \* the clock of the single limiter runs from 0 to MaxBkNow ticks
MaxSdInflight == 2   \* calls of discover_service waiting for the registry
MaxRetries == 2      \* the largest max_retries configured
MaxReloads == 2      \* reload tasks spawned by the watcher and not yet run
MaxLkThreads == 2    \* threads calling the methods of one breaker
MaxLkNow == 2        \* the clock of these calls runs over 0..MaxLkNow
MaxLayered == 2      \* services wrapped by CircuitBreakerLayer
MaxTbInflight == 2   \* requests looking up a breaker at the same time
MaxRwInflight == 2   \* requests between the router and the upstream at the same time

\* ------------------------------------------------------------------------
\* Variables
\* ------------------------------------------------------------------------
VARIABLES
    cbConfig,       \* config.circuit_breaker: failure_threshold, half_open_timeout_secs
    breakers,       \* CircuitBreakerMiddleware.breakers: service id -> CircuitBreaker
    cbNow,          \* Instant::now() as seen by the breakers
    cbReq,          \* the requests in CircuitBreakerMiddleware::call, one per slot
    cbOut,          \* the response the middleware handed back last, with what was
                    \* done for its request
    probeFailedAt   \* history: per service, the time at which a HalfOpen probe
                    \* failed and reopened the breaker, -1 once the breaker left Open

VARIABLES
    pipeReq         \* the requests in the assembled gateway, one per slot: the
                    \* services still to run and the stages run so far

cbVars == <<cbConfig, breakers, cbNow, cbReq, cbOut, probeFailedAt>>

VARIABLES
    rate_limit_layer,   \* the limiters: global, per path prefix, per ip
    rlNow,              \* the limiters' clock, in ticks
    rlReq,              \* the requests in the rate-limit service, one per slot
    rlOut               \* the last response the rate-limit service handed back

pipeVars == <<pipeReq>>

rlVars == <<rate_limit_layer, rlNow, rlReq, rlOut>>

VARIABLES
    bucket,         \* one limiter, taken alone
    bkNow,          \* its clock, in ticks
    bkFirst,        \* history: the instant of its first check, -1 before it
    bkAdmitted,     \* history: the checks admitted at that instant
    bkDenied        \* history: whether a check was denied at that instant

bkVars == <<bucket, bkNow, bkFirst, bkAdmitted, bkDenied>>

VARIABLES
    services,       \* ServiceDiscovery.services: service name -> addresses
    registry,       \* what Consul answers for each service name at present
    sdReq,          \* the calls of discover_service waiting for Consul
    sdRefresh,      \* the refresh task: the names it has still to visit
    sdOut           \* the result handed back last

sdVars == <<services, registry, sdReq, sdRefresh, sdOut>>

VARIABLES
    authConfig,     \* config.auth: the whitelists, the methods enabled, the api keys
    authOut         \* what authenticate did with the last request

authVars == <<authConfig, authOut>>

VARIABLES
    pxConfig,       \* config.routes.routes and config.retry, as the proxy reads them
    pxReq,          \* the request forward_http_request has sent upstream, if any
    pxOut           \* what the proxy did with the last request, and its response

pxVars == <<pxConfig, pxReq, pxOut>>

VARIABLES
    CONFIG,         \* the global configuration
    configFile,     \* the configuration file as it is on disk
    watching,       \* whether setup_config_watcher has been set up
    reloadTasks,    \* reload tasks spawned by the watcher and not yet run
    writers,        \* reload tasks waiting in CONFIG.write()
    lastLoad,       \* history: how the last load or reload ended
    served          \* the configuration the last request was served under

cfgVars == <<CONFIG, configFile, watching, reloadTasks, writers, lastLoad, served>>

VARIABLES
    lkBreaker,      \* one CircuitBreaker: the values behind its three locks
    lkLocks,        \* the holder of each lock of the breaker, 0 when it is free
    lkThread,       \* the calls of its methods under way, one per thread
    lkNow,          \* Instant::now() as seen by these calls
    lkFailed        \* history: a call of record_failure has returned

lkVars == <<lkBreaker, lkLocks, lkThread, lkNow, lkFailed>>

VARIABLES
    tbConfig,       \* config.circuit_breaker as get_or_create_breaker reads it
    tbMiddlewares,  \* the CircuitBreakerMiddleware values made by Layer::layer, each with its table of breakers and the holders of the table's lock
    tbBreakers,     \* the CircuitBreaker values created so far; an Arc is its index
    tbReq,          \* the requests in get_or_create_breaker and after, one per slot
    tbGiven         \* history: the <<service id, Arc>> pairs handed to requests

tbVars == <<tbConfig, tbMiddlewares, tbBreakers, tbReq, tbGiven>>

VARIABLES
    rwConfig,       \* the generation of the configuration held by CONFIG
    rwQueue,        \* the tasks waiting for CONFIG, in the order in which they asked
    rwMain,         \* main: where it stands, and whether its _config guard is alive
    rwRouter,       \* the generation of the configuration the router was built from
    rwReq,          \* the requests on their way through the router, one per slot
    rwReloads       \* reload tasks that have asked for CONFIG.write() so far

rwVars == <<rwConfig, rwQueue, rwMain, rwRouter, rwReq, rwReloads>>

vars == <<cbConfig, breakers, cbNow, cbReq, cbOut, probeFailedAt, pipeReq,
          rate_limit_layer, rlNow, rlReq, rlOut,
          bucket, bkNow, bkFirst, bkAdmitted, bkDenied,
          services, registry, sdReq, sdRefresh, sdOut,
          authConfig, authOut, pxConfig, pxReq, pxOut,
          CONFIG, configFile, watching, reloadTasks, writers, lastLoad, served,
          lkBreaker, lkLocks, lkThread, lkNow, lkFailed,
          tbConfig, tbMiddlewares, tbBreakers, tbReq, tbGiven,
          rwConfig, rwQueue, rwMain, rwRouter, rwReq, rwReloads>>

\* what a step of one part of the gateway leaves alone
exceptCB == <<pipeVars, rlVars, bkVars, sdVars, authVars, pxVars, cfgVars, lkVars, tbVars, rwVars>>

exceptPipe == <<cbVars, rlVars, bkVars, sdVars, authVars, pxVars, cfgVars, lkVars, tbVars, rwVars>>

exceptRL == <<cbVars, pipeVars, bkVars, sdVars, authVars, pxVars, cfgVars, lkVars, tbVars, rwVars>>

exceptBucket == <<cbVars, pipeVars, rlVars, sdVars, authVars, pxVars, cfgVars, lkVars, tbVars, rwVars>>

exceptSd == <<cbVars, pipeVars, rlVars, bkVars, authVars, pxVars, cfgVars, lkVars, tbVars, rwVars>>

exceptAuth == <<cbVars, pipeVars, rlVars, bkVars, sdVars, pxVars, cfgVars, lkVars, tbVars, rwVars>>

exceptProxy == <<cbVars, pipeVars, rlVars, bkVars, sdVars, authVars, cfgVars, lkVars, tbVars, rwVars>>

exceptConfig == <<cbVars, pipeVars, rlVars, bkVars, sdVars, authVars, pxVars, lkVars, tbVars, rwVars>>

exceptLock == <<cbVars, pipeVars, rlVars, bkVars, sdVars, authVars, pxVars, cfgVars, tbVars, rwVars>>

exceptTable == <<cbVars, pipeVars, rlVars, bkVars, sdVars, authVars, pxVars, cfgVars, lkVars, rwVars>>

exceptRw == <<cbVars, pipeVars, rlVars, bkVars, sdVars, authVars, pxVars, cfgVars, lkVars, tbVars>>

\* ------------------------------------------------------------------------
\* Strings
\* ------------------------------------------------------------------------
starts_with(s, prefix) ==
    /\ Len(prefix) <= Len(s)
    /\ SubSeq(s, 1, Len(prefix)) = prefix

\* ------------------------------------------------------------------------
\* CircuitBreaker
\* ------------------------------------------------------------------------
Closed == "Closed"
Open == "Open"
HalfOpen == "HalfOpen"
CircuitBreakerState == {Closed, Open, HalfOpen}

\* The failure_count a new breaker starts with.
InitialFailureCount == 5

\* CircuitBreaker::new, called at time t
new(service_id, failure_threshold, reset_timeout_secs, t) ==
    [ state             |-> Closed,
      failure_count     |-> InitialFailureCount,
      failure_threshold |-> failure_threshold,
      reset_timeout     |-> reset_timeout_secs,
      last_failure_time |-> t,
      service_id        |-> service_id ]

\* record_success closing a HalfOpen breaker without resetting failure_count
record_success_keeps_count(b) ==
    CASE b.state = Closed   -> [b EXCEPT !.failure_count = 0]
      [] b.state = HalfOpen -> [b EXCEPT !.state = Closed]
      [] b.state = Open     -> b

\* record_success closing an Open breaker
record_success_closes_open(b) ==
    CASE b.state = Closed   -> [b EXCEPT !.failure_count = 0]
      [] b.state = HalfOpen -> [b EXCEPT !.state = Closed, !.failure_count = 0]
      [] b.state = Open     -> [b EXCEPT !.state = Closed, !.failure_count = 0]

\* CircuitBreaker::record_success
record_success(b) ==
    CASE b.state = Closed   -> [b EXCEPT !.failure_count = 0]
      [] b.state = HalfOpen -> [b EXCEPT !.state = Closed, !.failure_count = 0]
      [] b.state = Open     -> b

\* record_failure opening the breaker only above the threshold
record_failure_above(b, t) ==
    CASE b.state = Closed ->
            LET failure_count == b.failure_count + 1 IN
            IF failure_count > b.failure_threshold
            THEN [b EXCEPT !.failure_count = failure_count,
                           !.state = Open,
                           !.last_failure_time = t]
            ELSE [b EXCEPT !.failure_count = failure_count]
      [] b.state = HalfOpen ->
            [b EXCEPT !.state = Open, !.last_failure_time = t]
      [] b.state = Open ->
            [b EXCEPT !.last_failure_time = t]

\* record_failure leaving an Open breaker as it is
record_failure_open_ignored(b, t) ==
    CASE b.state = Closed ->
            LET failure_count == b.failure_count + 1 IN
            IF failure_count >= b.failure_threshold
            THEN [b EXCEPT !.failure_count = failure_count,
                           !.state = Open,
                           !.last_failure_time = t]
            ELSE [b EXCEPT !.failure_count = failure_count]
      [] b.state = HalfOpen ->
            [b EXCEPT !.state = Open, !.last_failure_time = t]
      [] b.state = Open -> b

\* record_failure reopening a HalfOpen breaker with the old last_failure_time
record_failure_stale(b, t) ==
    CASE b.state = Closed ->
            LET failure_count == b.failure_count + 1 IN
            IF failure_count >= b.failure_threshold
            THEN [b EXCEPT !.failure_count = failure_count,
                           !.state = Open,
                           !.last_failure_time = t]
            ELSE [b EXCEPT !.failure_count = failure_count]
      [] b.state = HalfOpen ->
            [b EXCEPT !.state = Open]
      [] b.state = Open ->
            [b EXCEPT !.last_failure_time = t]

\* CircuitBreaker::record_failure, called at time t
record_failure(b, t) ==
    CASE b.state = Closed ->
            LET failure_count == b.failure_count + 1 IN
            IF failure_count >= b.failure_threshold
            THEN [b EXCEPT !.failure_count = failure_count,
                           !.state = Open,
                           !.last_failure_time = t]
            ELSE [b EXCEPT !.failure_count = failure_count]
      [] b.state = HalfOpen ->
            [b EXCEPT !.state = Open, !.last_failure_time = t]
      [] b.state = Open ->
            [b EXCEPT !.last_failure_time = t]

\* check admitting the probe only after more than reset_timeout
check_late(b, t) ==
    CASE b.state = Open ->
            IF t - b.last_failure_time > b.reset_timeout
            THEN [breaker |-> [b EXCEPT !.state = HalfOpen], allowed |-> TRUE]
            ELSE [breaker |-> b, allowed |-> FALSE]
      [] b.state = HalfOpen -> [breaker |-> b, allowed |-> TRUE]
      [] b.state = Closed   -> [breaker |-> b, allowed |-> TRUE]

\* CircuitBreaker::check, called at time t: the breaker after the call and
\* the value returned
check(b, t) ==
    CASE b.state = Open ->
            IF t - b.last_failure_time >= b.reset_timeout
            THEN [breaker |-> [b EXCEPT !.state = HalfOpen], allowed |-> TRUE]
            ELSE [breaker |-> b, allowed |-> FALSE]
      [] b.state = HalfOpen -> [breaker |-> b, allowed |-> TRUE]
      [] b.state = Closed   -> [breaker |-> b, allowed |-> TRUE]

\* ------------------------------------------------------------------------
\* The requests and the inner service of the breaker middleware
\* ------------------------------------------------------------------------
NoHeader == "<none>"

\* Paths whose route has ServiceType::GrpcService
GrpcPrefixes == { <<"/rpc">> }

is_grpc_route(path) == \E p \in GrpcPrefixes : starts_with(path, p)

\* extract_service_id
extract_service_id(req) ==
    IF req.target_service # NoHeader THEN req.target_service
    ELSE IF starts_with(req.path, <<"/api/auth">>) THEN "auth-service"
    ELSE IF starts_with(req.path, <<"/api/users">>) THEN "user-service"
    ELSE IF starts_with(req.path, <<"/api/friends">>) THEN "friend-service"
    ELSE IF starts_with(req.path, <<"/api/groups">>) THEN "group-service"
    ELSE "unknown-service"

\* StatusCode::is_success, StatusCode::is_server_error
is_success(status) == 200 <= status /\ status <= 299
is_server_error(status) == 500 <= status /\ status <= 599

SERVICE_UNAVAILABLE == 503
NOT_IMPLEMENTED == 501

\* Statuses an HTTP upstream answers with, one of each class
UpstreamStatuses == {200, 302, 404, 503}

\* GenericGrpcClientFactory::forward_request: the status of its response
grpc_forward_request == NOT_IMPLEMENTED

\* What svc.call(req).await yields: Ok(response) with a status, or Err
ErrOutcome == [kind |-> "err", status |-> 0]
OkOutcome(status) == [kind |-> "ok", status |-> status]

\* ServiceProxy::forward_request as the inner service, by the route's type
InnerOutcomes(req) ==
    IF is_grpc_route(req.path)
    THEN { OkOutcome(grpc_forward_request), OkOutcome(SERVICE_UNAVAILABLE) }
    ELSE { OkOutcome(st) : st \in UpstreamStatuses } \cup { ErrOutcome }

\* The record operation the middleware applies to the breaker for an
\* outcome of the inner service: "success", "failure" or "none"
recorded_for(outcome) ==
    IF outcome.kind = "ok"
    THEN IF is_success(outcome.status) THEN "success"
         ELSE IF is_server_error(outcome.status) THEN "failure"
         ELSE "none"
    ELSE "failure"

Slots == 1..MaxInflight

\* A slot without a request
IdleReq == [pc |-> "idle", target_service |-> NoHeader, path |-> <<>>,
            service_id |-> ""]

\* Before any response was handed back
NoOut == [service_id |-> "", inner_calls |-> 0, recorded |-> "none",
          response |-> [kind |-> "none", status |-> 0, service |-> ""]]

\* CircuitBreakerMiddleware::get_or_create_breaker: the table after the call
get_or_create_breaker(table, service_id, config, t) ==
    IF service_id \in DOMAIN table THEN table
    ELSE [ s \in DOMAIN table \cup {service_id} |->
             IF s = service_id
             THEN new(service_id, config.failure_threshold,
                      config.half_open_timeout_secs, t)
             ELSE table[s] ]

\* a refusal whose body does not name the service
refused_response_anonymous(service_id) ==
    [kind |-> "ok", status |-> SERVICE_UNAVAILABLE, service |-> ""]

\* The 503 response of a refused request
refused_response(service_id) ==
    [kind |-> "ok", status |-> SERVICE_UNAVAILABLE, service |-> service_id]

\* CircuitBreakerMiddleware::call on a request that check() refused: what is
\* handed back, the inner service not being called and nothing recorded
refused(service_id) ==
    [service_id |-> service_id, inner_calls |-> 0, recorded |-> "none",
     response |-> refused_response(service_id)]

\* CircuitBreakerMiddleware::call on a request that check() admitted: what is
\* handed back once the inner service answered with outcome
completed(service_id, outcome) ==
    [service_id |-> service_id, inner_calls |-> 1,
     recorded |-> recorded_for(outcome),
     response |-> [kind |-> outcome.kind, status |-> outcome.status,
                   service |-> ""]]

\* history: what a step on breaker b -> b2 at time t does to probeFailedAt
ProbeHistory(old, b, b2, t) ==
    IF b.state = HalfOpen /\ b2.state = Open THEN t
    ELSE IF b2.state = Open THEN old
    ELSE -1

\* CircuitBreakerMiddleware::call up to the future it returns: the breaker is
\* looked up or created and checked; a refused request is answered at once
Call(r, req) ==
    /\ cbReq[r].pc = "idle"
    /\ LET service_id == extract_service_id(req)
           table == get_or_create_breaker(breakers, service_id, cbConfig, cbNow)
           res == check(table[service_id], cbNow)
           old == IF service_id \in DOMAIN probeFailedAt
                  THEN probeFailedAt[service_id] ELSE -1
       IN /\ breakers' = [table EXCEPT ![service_id] = res.breaker]
          /\ probeFailedAt' =
                [ s \in DOMAIN table |->
                    IF s = service_id
                    THEN ProbeHistory(old, table[service_id], res.breaker, cbNow)
                    ELSE probeFailedAt[s] ]
          /\ IF res.allowed
             THEN /\ cbReq' = [cbReq EXCEPT ![r] =
                        [pc |-> "inner", target_service |-> req.target_service,
                         path |-> req.path, service_id |-> service_id]]
                  /\ cbOut' = cbOut
             ELSE /\ cbReq' = cbReq
                  /\ cbOut' = refused(service_id)
    /\ UNCHANGED <<cbConfig, cbNow>>
    /\ UNCHANGED exceptCB

\* The future returned by call: svc.call(req).await completes with outcome,
\* the breaker records it and the outcome is handed on
Complete(r, outcome) ==
    /\ cbReq[r].pc = "inner"
    /\ LET service_id == cbReq[r].service_id
           b == breakers[service_id]
           out == completed(service_id, outcome)
           b2 == CASE out.recorded = "success" -> record_success(b)
                   [] out.recorded = "failure" -> record_failure(b, cbNow)
                   [] out.recorded = "none"    -> b
       IN /\ breakers' = [breakers EXCEPT ![service_id] = b2]
          /\ probeFailedAt' = [probeFailedAt EXCEPT ![service_id] =
                                 ProbeHistory(@, b, b2, cbNow)]
          /\ cbReq' = [cbReq EXCEPT ![r] = IdleReq]
          /\ cbOut' = out
    /\ UNCHANGED <<cbConfig, cbNow>>
    /\ UNCHANGED exceptCB

\* Time passes
Tick ==
    /\ cbNow < MaxNow
    /\ cbNow' = cbNow + 1
    /\ UNCHANGED <<cbConfig, breakers, cbReq, cbOut, probeFailedAt>>
    /\ UNCHANGED exceptCB

\* The requests sent to the service: one names it by its path and has an HTTP
\* route, one names it in the X-Target-Service header and has a gRPC route
CBRequests ==
    { [target_service |-> NoHeader, path |-> <<"/api/auth", "/login">>],
      [target_service |-> "auth-service", path |-> <<"/rpc", "/Echo">>] }

\* The default failure_threshold of the configuration
DefaultThreshold == 5

CBConfigs == [failure_threshold : {2, DefaultThreshold, MaxThreshold},
              half_open_timeout_secs : {1, MaxTimeout}]

CBInit ==
    /\ cbConfig \in CBConfigs
    /\ breakers = [s \in {} |-> 0]
    /\ probeFailedAt = [s \in {} |-> 0]
    /\ cbNow = 0
    /\ cbReq = [r \in Slots |-> IdleReq]
    /\ cbOut = NoOut

CBNext ==
    \/ \E r \in Slots, req \in CBRequests : Call(r, req)
    \/ \E r \in Slots : \E outcome \in InnerOutcomes(cbReq[r]) : Complete(r, outcome)
    \/ Tick

\* ------------------------------------------------------------------------
\* One CircuitBreaker under concurrent calls, lock by lock
\* ------------------------------------------------------------------------
LkThreads == 1..MaxLkThreads

LkOps == {"check", "record_success", "record_failure"}

\* a thread outside the breaker's methods
IdleThread == [pc |-> "idle", op |-> "", before |-> new("", 0, 0, 0),
               allowed |-> TRUE]

FreeLocks == [state |-> 0, failure_count |-> 0, last_failure_time |-> 0]

\* A thread calls a method of the breaker; its first statement is
\* self.state.write(), for which it may have to wait
LkCall(t, op) ==
    /\ lkThread[t].pc = "idle"
    /\ lkThread' = [lkThread EXCEPT ![t] = [IdleThread EXCEPT !.pc = "wait", !.op = op]]
    /\ UNCHANGED <<lkBreaker, lkLocks, lkNow, lkFailed>>
    /\ UNCHANGED exceptLock

\* a method going on to its match without the lock of state
LkAcquire_without_lock(t) ==
    /\ lkThread[t].pc = "wait"
    /\ lkThread' = [lkThread EXCEPT ![t] = [@ EXCEPT !.pc = "state",
                                                      !.before = lkBreaker]]
    /\ UNCHANGED <<lkBreaker, lkLocks, lkNow, lkFailed>>
    /\ UNCHANGED exceptLock

\* self.state.write() returns the guard: the thread matches on the state it
\* finds
LkAcquire(t) ==
    /\ lkThread[t].pc = "wait"
    /\ lkLocks.state = 0
    /\ lkLocks' = [lkLocks EXCEPT !.state = t]
    /\ lkThread' = [lkThread EXCEPT ![t] = [@ EXCEPT !.pc = "state",
                                                      !.before = lkBreaker]]
    /\ UNCHANGED <<lkBreaker, lkNow, lkFailed>>
    /\ UNCHANGED exceptLock

\* The arm of the match, up to its first write behind another lock. A guard
\* of failure_count or last_failure_time that lives for one statement is
\* taken and dropped within the step; record_failure keeps its guard of
\* failure_count while the count has reached the threshold
LkMatch(t) ==
    /\ lkThread[t].pc = "state"
    /\ LET th == lkThread[t]
           seen == th.before.state
       IN CASE th.op = "record_success" /\ seen = Closed ->
                 /\ lkLocks.failure_count = 0
                 /\ lkBreaker' = [lkBreaker EXCEPT !.failure_count = 0]
                 /\ lkThread' = [lkThread EXCEPT ![t] = [@ EXCEPT !.pc = "done"]]
                 /\ UNCHANGED lkLocks
            [] th.op = "record_success" /\ seen = HalfOpen ->
                 /\ lkBreaker' = [lkBreaker EXCEPT !.state = Closed]
                 /\ lkThread' = [lkThread EXCEPT ![t] = [@ EXCEPT !.pc = "reset"]]
                 /\ UNCHANGED lkLocks
            [] th.op = "record_success" /\ seen = Open ->
                 /\ lkThread' = [lkThread EXCEPT ![t] = [@ EXCEPT !.pc = "done"]]
                 /\ UNCHANGED <<lkBreaker, lkLocks>>
            [] th.op = "record_failure" /\ seen = Closed ->
                 /\ lkLocks.failure_count = 0
                 /\ lkBreaker' = [lkBreaker EXCEPT !.failure_count = @ + 1]
                 /\ IF lkBreaker.failure_count + 1 >= lkBreaker.failure_threshold
                    THEN /\ lkLocks' = [lkLocks EXCEPT !.failure_count = t]
                         /\ lkThread' = [lkThread EXCEPT ![t] = [@ EXCEPT !.pc = "open"]]
                    ELSE /\ lkThread' = [lkThread EXCEPT ![t] = [@ EXCEPT !.pc = "done"]]
                         /\ UNCHANGED lkLocks
            [] th.op = "record_failure" /\ seen = HalfOpen ->
                 /\ lkBreaker' = [lkBreaker EXCEPT !.state = Open]
                 /\ lkThread' = [lkThread EXCEPT ![t] = [@ EXCEPT !.pc = "stamp"]]
                 /\ UNCHANGED lkLocks
            [] th.op = "record_failure" /\ seen = Open ->
                 /\ lkLocks.last_failure_time = 0
                 /\ lkBreaker' = [lkBreaker EXCEPT !.last_failure_time = lkNow]
                 /\ lkThread' = [lkThread EXCEPT ![t] = [@ EXCEPT !.pc = "done"]]
                 /\ UNCHANGED lkLocks
            [] th.op = "check" /\ seen = Open ->
                 /\ lkLocks.last_failure_time = 0
                 /\ IF lkNow - lkBreaker.last_failure_time >= lkBreaker.reset_timeout
                    THEN /\ lkBreaker' = [lkBreaker EXCEPT !.state = HalfOpen]
                         /\ lkThread' = [lkThread EXCEPT ![t] =
                                           [@ EXCEPT !.pc = "done", !.allowed = TRUE]]
                    ELSE /\ lkThread' = [lkThread EXCEPT ![t] =
                                           [@ EXCEPT !.pc = "done", !.allowed = FALSE]]
                         /\ UNCHANGED lkBreaker
                 /\ UNCHANGED lkLocks
            [] th.op = "check" /\ seen # Open ->
                 /\ lkThread' = [lkThread EXCEPT ![t] =
                                   [@ EXCEPT !.pc = "done", !.allowed = TRUE]]
                 /\ UNCHANGED <<lkBreaker, lkLocks>>
    /\ UNCHANGED <<lkNow, lkFailed>>
    /\ UNCHANGED exceptLock

\* The second write of an arm: record_success resets the count of the
\* breaker it closed; record_failure opens the breaker whose count reached
\* the threshold and stamps it, or stamps the breaker it reopened
LkSecond(t) ==
    /\ lkThread[t].pc \in {"reset", "open", "stamp"}
    /\ CASE lkThread[t].pc = "reset" ->
              /\ lkLocks.failure_count = 0
              /\ lkBreaker' = [lkBreaker EXCEPT !.failure_count = 0]
              /\ UNCHANGED lkLocks
         [] lkThread[t].pc = "open" ->
              /\ lkLocks.last_failure_time = 0
              /\ lkBreaker' = [lkBreaker EXCEPT !.state = Open,
                                                !.last_failure_time = lkNow]
              /\ lkLocks' = [lkLocks EXCEPT !.failure_count = 0]
         [] lkThread[t].pc = "stamp" ->
              /\ lkLocks.last_failure_time = 0
              /\ lkBreaker' = [lkBreaker EXCEPT !.last_failure_time = lkNow]
              /\ UNCHANGED lkLocks
    /\ lkThread' = [lkThread EXCEPT ![t] = [@ EXCEPT !.pc = "done"]]
    /\ UNCHANGED <<lkNow, lkFailed>>
    /\ UNCHANGED exceptLock

\* The method returns: the guard of state is dropped
LkReturn(t) ==
    /\ lkThread[t].pc = "done"
    /\ lkLocks' = [lkLocks EXCEPT !.state = IF @ = t THEN 0 ELSE @]
    /\ lkFailed' = (lkFailed \/ lkThread[t].op = "record_failure")
    /\ lkThread' = [lkThread EXCEPT ![t] = IdleThread]
    /\ UNCHANGED <<lkBreaker, lkNow>>
    /\ UNCHANGED exceptLock

LkTick ==
    /\ lkNow < MaxLkNow
    /\ lkNow' = lkNow + 1
    /\ UNCHANGED <<lkBreaker, lkLocks, lkThread, lkFailed>>
    /\ UNCHANGED exceptLock

LockIdle ==
    /\ lkBreaker = new("auth-service", DefaultThreshold, 1, 0)
    /\ lkLocks = FreeLocks
    /\ lkThread = [t \in LkThreads |-> IdleThread]
    /\ lkNow = 0
    /\ lkFailed = FALSE

LockInit ==
    /\ \E config \in CBConfigs :
          lkBreaker = new("auth-service", config.failure_threshold,
                          config.half_open_timeout_secs, 0)
    /\ lkLocks = FreeLocks
    /\ lkThread = [t \in LkThreads |-> IdleThread]
    /\ lkNow = 0
    /\ lkFailed = FALSE

LockNext ==
    \/ \E t \in LkThreads, op \in LkOps : LkCall(t, op)
    \/ \E t \in LkThreads : LkAcquire(t)
    \/ \E t \in LkThreads : LkMatch(t)
    \/ \E t \in LkThreads : LkSecond(t)
    \/ \E t \in LkThreads : LkReturn(t)
    \/ LkTick

\* ------------------------------------------------------------------------
\* The tables of breakers behind CircuitBreakerLayer, lock by lock
\* ------------------------------------------------------------------------
TbSlots == 1..MaxTbInflight

\* requests for two services; the second names its service in
\* X-Target-Service
TbRequests ==
    { [target_service |-> NoHeader, path |-> <<"/api/auth", "/login">>],
      [target_service |-> "auth-service", path |-> <<"/rpc">>],
      [target_service |-> NoHeader, path |-> <<"/api/users", "/1">>] }

IdleTb == [pc |-> "idle", middleware |-> 0, service_id |-> "", breaker |-> 0]

\* CircuitBreakerMiddleware::new: an empty table behind a free lock
NewMiddleware == [breakers |-> [s \in {} |-> 0], readers |-> {}, writer |-> 0]

\* Layer::layer wraps one more service
TbLayer ==
    /\ Len(tbMiddlewares) < MaxLayered
    /\ tbMiddlewares' = Append(tbMiddlewares, NewMiddleware)
    /\ UNCHANGED <<tbConfig, tbBreakers, tbReq, tbGiven>>
    /\ UNCHANGED exceptTable

\* a request reaches (a clone of) middleware m, which extracts the service
\* id and calls get_or_create_breaker
TbCall(r, m, req) ==
    /\ tbReq[r].pc = "idle"
    /\ m \in 1..Len(tbMiddlewares)
    /\ tbReq' = [tbReq EXCEPT ![r] = [pc |-> "read", middleware |-> m,
                                      service_id |-> extract_service_id(req),
                                      breaker |-> 0]]
    /\ UNCHANGED <<tbConfig, tbMiddlewares, tbBreakers, tbGiven>>
    /\ UNCHANGED exceptTable

\* self.breakers.read()
TbRead(r) ==
    /\ tbReq[r].pc = "read"
    /\ LET m == tbReq[r].middleware
       IN /\ tbMiddlewares[m].writer = 0
          /\ tbMiddlewares' = [tbMiddlewares EXCEPT ![m].readers = @ \cup {r}]
    /\ tbReq' = [tbReq EXCEPT ![r].pc = "lookup"]
    /\ UNCHANGED <<tbConfig, tbBreakers, tbGiven>>
    /\ UNCHANGED exceptTable

\* the lookup under the read guard: the breaker found is returned, otherwise
\* the guard is dropped and the write lock is asked for
TbLookup(r) ==
    /\ tbReq[r].pc = "lookup"
    /\ LET m == tbReq[r].middleware
           service_id == tbReq[r].service_id
           table == tbMiddlewares[m].breakers
       IN /\ tbMiddlewares' = [tbMiddlewares EXCEPT ![m].readers = @ \ {r}]
          /\ IF service_id \in DOMAIN table
             THEN tbReq' = [tbReq EXCEPT ![r].pc = "got",
                                         ![r].breaker = table[service_id]]
             ELSE tbReq' = [tbReq EXCEPT ![r].pc = "write"]
    /\ UNCHANGED <<tbConfig, tbBreakers, tbGiven>>
    /\ UNCHANGED exceptTable

\* self.breakers.write()
TbWrite(r) ==
    /\ tbReq[r].pc = "write"
    /\ LET m == tbReq[r].middleware
       IN /\ tbMiddlewares[m].writer = 0
          /\ tbMiddlewares[m].readers = {}
          /\ tbMiddlewares' = [tbMiddlewares EXCEPT ![m].writer = r]
    /\ tbReq' = [tbReq EXCEPT ![r].pc = "recheck"]
    /\ UNCHANGED <<tbConfig, tbBreakers, tbGiven>>
    /\ UNCHANGED exceptTable

\* the second lookup, under the write guard: the breaker another request
\* inserted meanwhile is returned, otherwise a breaker is created from the
\* configuration and inserted; the guard is dropped on return
TbRecheck(r) ==
    /\ tbReq[r].pc = "recheck"
    /\ LET m == tbReq[r].middleware
           service_id == tbReq[r].service_id
           table == tbMiddlewares[m].breakers
           arc == Len(tbBreakers) + 1
       IN IF service_id \in DOMAIN table
          THEN /\ tbMiddlewares' = [tbMiddlewares EXCEPT ![m].writer = 0]
               /\ tbReq' = [tbReq EXCEPT ![r].pc = "got",
                                         ![r].breaker = table[service_id]]
               /\ UNCHANGED tbBreakers
          ELSE /\ tbBreakers' = Append(tbBreakers,
                                       new(service_id, tbConfig.failure_threshold,
                                           tbConfig.half_open_timeout_secs, 0))
               /\ tbMiddlewares' =
                     [tbMiddlewares EXCEPT
                        ![m].writer = 0,
                        ![m].breakers = [s \in DOMAIN table \cup {service_id} |->
                                           IF s = service_id THEN arc ELSE table[s]]]
               /\ tbReq' = [tbReq EXCEPT ![r].pc = "got", ![r].breaker = arc]
    /\ UNCHANGED <<tbConfig, tbGiven>>
    /\ UNCHANGED exceptTable

\* the rest of call for a request whose inner service answers with a server
\* error: check, and record_failure when the request was admitted
TbFail(r) ==
    /\ tbReq[r].pc = "got"
    /\ LET arc == tbReq[r].breaker
           res == check(tbBreakers[arc], 0)
       IN /\ tbBreakers' = [tbBreakers EXCEPT ![arc] =
                              IF res.allowed THEN record_failure(res.breaker, 0)
                              ELSE res.breaker]
          /\ tbGiven' = tbGiven \cup {<<tbReq[r].service_id, arc>>}
    /\ tbReq' = [tbReq EXCEPT ![r] = IdleTb]
    /\ UNCHANGED <<tbConfig, tbMiddlewares>>
    /\ UNCHANGED exceptTable

TableIdle ==
    /\ tbConfig = [failure_threshold |-> DefaultThreshold,
                   half_open_timeout_secs |-> 1]
    /\ tbMiddlewares = <<>>
    /\ tbBreakers = <<>>
    /\ tbReq = [r \in TbSlots |-> IdleTb]
    /\ tbGiven = {}

TableInit ==
    /\ tbConfig \in CBConfigs
    /\ tbMiddlewares = <<>>
    /\ tbBreakers = <<>>
    /\ tbReq = [r \in TbSlots |-> IdleTb]
    /\ tbGiven = {}

TableNext ==
    \/ TbLayer
    \/ \E r \in TbSlots, m \in 1..MaxLayered, req \in TbRequests : TbCall(r, m, req)
    \/ \E r \in TbSlots : TbRead(r)
    \/ \E r \in TbSlots : TbLookup(r)
    \/ \E r \in TbSlots : TbWrite(r)
    \/ \E r \in TbSlots : TbRecheck(r)
    \/ \E r \in TbSlots : TbFail(r)

\* ------------------------------------------------------------------------
\* CONFIG, a tokio RwLock, between main, the requests and the reload tasks
\* ------------------------------------------------------------------------
RwSlots == 1..MaxRwInflight

\* the routes a request may take: one without the authentication layer
\* (require_auth false), one with it and a whitelisted path
RwRouteKinds == {"open", "whitelisted"}

IdleRw == [pc |-> "idle", kind |-> "", guards |-> 0, route |-> -1, rewrite |-> -1]

\* a request for CONFIG.read() by a request slot, or by main, who = 0
ReadOf(who) == [kind |-> "read", who |-> who, config |-> -1]

WriteOf(config) == [kind |-> "write", who |-> -1, config |-> config]

\* the queue without the requests of who
Without(queue, who) ==
    SelectSeq(queue, LAMBDA w : w.who # who)

\* main asks for CONFIG.read(): for the guard _config it keeps until it
\* returns, then within ServiceProxy::new, then within RouterBuilder::build
RwMainRead ==
    /\ rwMain.pc \in {"guard", "new", "build"}
    /\ rwQueue' = Append(rwQueue, ReadOf(0))
    /\ rwMain' = [rwMain EXCEPT !.pc = CASE rwMain.pc = "guard" -> "guard_wait"
                                         [] rwMain.pc = "new"   -> "new_wait"
                                         [] rwMain.pc = "build" -> "build_wait"]
    /\ UNCHANGED <<rwConfig, rwRouter, rwReq, rwReloads>>
    /\ UNCHANGED exceptRw

\* The lock serves the head of its queue. A read is granted at once, a write
\* once no read guard is alive. The writer stores its configuration and
\* drops its guard; main keeps its first guard, and drops those of
\* ServiceProxy::new and of build, which builds the router from what it
\* reads, when these return; a request reads the rule for its path rewrite
\* under the guard it takes in forward_http_request
RwGrant ==
    /\ rwQueue # <<>>
    /\ LET head == Head(rwQueue)
       IN /\ rwQueue' = Tail(rwQueue)
          /\ CASE head.kind = "write" ->
                    /\ ~rwMain.guard
                    /\ \A r \in RwSlots : rwReq[r].guards = 0
                    /\ rwConfig' = head.config
                    /\ UNCHANGED <<rwMain, rwRouter, rwReq>>
               [] head.kind = "read" /\ head.who = 0 ->
                    /\ CASE rwMain.pc = "guard_wait" ->
                              /\ rwMain' = [pc |-> "new", guard |-> TRUE]
                              /\ UNCHANGED rwRouter
                         [] rwMain.pc = "new_wait" ->
                              /\ rwMain' = [rwMain EXCEPT !.pc = "build"]
                              /\ UNCHANGED rwRouter
                         [] rwMain.pc = "build_wait" ->
                              /\ rwMain' = [rwMain EXCEPT !.pc = "serving"]
                              /\ rwRouter' = rwConfig
                    /\ UNCHANGED <<rwConfig, rwReq>>
               [] head.kind = "read" /\ head.who # 0 ->
                    /\ rwReq' = [rwReq EXCEPT ![head.who] =
                                   IF @.pc = "auth_wait"
                                   THEN [@ EXCEPT !.pc = "next", !.guards = 1]
                                   ELSE [@ EXCEPT !.pc = "sending",
                                                  !.guards = @ + 1,
                                                  !.rewrite = rwConfig]]
                    /\ UNCHANGED <<rwConfig, rwMain, rwRouter>>
    /\ UNCHANGED rwReloads
    /\ UNCHANGED exceptRw

\* A request arrives while the server runs. The router, built at start,
\* gives it the handler of its route, with the service type captured then;
\* on a route with the authentication layer authenticate asks for
\* CONFIG.read() first
RwArrive(r, kind) ==
    /\ rwMain.pc = "serving"
    /\ rwReq[r].pc = "idle"
    /\ IF kind = "open"
       THEN /\ rwReq' = [rwReq EXCEPT ![r] = [IdleRw EXCEPT !.pc = "next",
                                                            !.kind = kind,
                                                            !.route = rwRouter]]
            /\ UNCHANGED rwQueue
       ELSE /\ rwReq' = [rwReq EXCEPT ![r] = [IdleRw EXCEPT !.pc = "auth_wait",
                                                            !.kind = kind,
                                                            !.route = rwRouter]]
            /\ rwQueue' = Append(rwQueue, ReadOf(r))
    /\ UNCHANGED <<rwConfig, rwMain, rwRouter, rwReloads>>
    /\ UNCHANGED exceptRw

\* the handler has the address of the service and forward_http_request asks
\* for CONFIG.read(), the guard of authenticate, if any, being alive
RwProxyRead(r) ==
    /\ rwReq[r].pc = "next"
    /\ rwReq' = [rwReq EXCEPT ![r].pc = "proxy_wait"]
    /\ rwQueue' = Append(rwQueue, ReadOf(r))
    /\ UNCHANGED <<rwConfig, rwMain, rwRouter, rwReloads>>
    /\ UNCHANGED exceptRw

\* the upstream has answered: the response is returned, the guards dropped
RwRespond(r) ==
    /\ rwReq[r].pc = "sending"
    /\ rwReq' = [rwReq EXCEPT ![r] = IdleRw]
    /\ UNCHANGED <<rwConfig, rwQueue, rwMain, rwRouter, rwReloads>>
    /\ UNCHANGED exceptRw

\* TimeoutLayer, or the client going away, drops the future of a request at
\* an await: its guards are dropped and it leaves the queue
RwTimeout(r) ==
    /\ rwReq[r].pc \in {"auth_wait", "next", "proxy_wait", "sending"}
    /\ rwReq' = [rwReq EXCEPT ![r] = IdleRw]
    /\ rwQueue' = Without(rwQueue, r)
    /\ UNCHANGED <<rwConfig, rwMain, rwRouter, rwReloads>>
    /\ UNCHANGED exceptRw

\* the watcher, set up by load_config, has seen the file change and its task
\* has parsed the new configuration: the task asks for CONFIG.write()
RwReload ==
    /\ rwMain.pc # "dropped"
    /\ rwReloads < MaxReloads
    /\ rwReloads' = rwReloads + 1
    /\ rwQueue' = Append(rwQueue, WriteOf(rwReloads + 1))
    /\ UNCHANGED <<rwConfig, rwMain, rwRouter, rwReq>>
    /\ UNCHANGED exceptRw

\* serve has returned, after the graceful shutdown or with an error: main
\* returns and its guard _config is dropped
RwMainExit ==
    /\ rwMain.pc = "serving"
    /\ rwMain' = [pc |-> "exited", guard |-> FALSE]
    /\ UNCHANGED <<rwConfig, rwQueue, rwRouter, rwReq, rwReloads>>
    /\ UNCHANGED exceptRw

\* the runtime is dropped after main has returned: every task still alive
\* is cancelled
RwRuntimeDrop ==
    /\ rwMain.pc = "exited"
    /\ rwMain' = [rwMain EXCEPT !.pc = "dropped"]
    /\ rwQueue' = <<>>
    /\ rwReq' = [r \in RwSlots |-> IdleRw]
    /\ UNCHANGED <<rwConfig, rwRouter, rwReloads>>
    /\ UNCHANGED exceptRw

RwIdle ==
    /\ rwConfig = 0
    /\ rwQueue = <<>>
    /\ rwMain = [pc |-> "dropped", guard |-> FALSE]
    /\ rwRouter = -1
    /\ rwReq = [r \in RwSlots |-> IdleRw]
    /\ rwReloads = 0

\* load_config has returned: CONFIG holds the configuration of the file and
\* the watcher is set up
RwInit ==
    /\ rwConfig = 0
    /\ rwQueue = <<>>
    /\ rwMain = [pc |-> "guard", guard |-> FALSE]
    /\ rwRouter = -1
    /\ rwReq = [r \in RwSlots |-> IdleRw]
    /\ rwReloads = 0

RwNext ==
    \/ RwMainRead
    \/ RwGrant
    \/ \E r \in RwSlots, kind \in RwRouteKinds : RwArrive(r, kind)
    \/ \E r \in RwSlots : RwProxyRead(r)
    \/ \E r \in RwSlots : RwRespond(r)
    \/ \E r \in RwSlots : RwTimeout(r)
    \/ RwReload
    \/ RwMainExit
    \/ RwRuntimeDrop

\* ------------------------------------------------------------------------
\* The assembled gateway: the router and its layers
\* ------------------------------------------------------------------------
\* config.routes.routes: two of the default rules
Routes ==
    << [id |-> "auth-service", path_prefix |-> <<"/api/auth">>, require_auth |-> FALSE],
       [id |-> "user-service", path_prefix |-> <<"/api/users">>, require_auth |-> TRUE] >>

\* A route is a path pattern and the services a request passes, outermost first.
\* MethodRouter::route_layer: the layer wraps the handler of the route
route_layer(stack, l) == <<l>> \o stack

\* The handler of a route rule: forward_request, behind auth_middleware when
\* the rule requires authentication
route_handler(rule) ==
    IF rule.require_auth THEN route_layer(<<"proxy">>, "auth") ELSE <<"proxy">>

\* RouterBuilder::build: per rule a route for the prefix itself and one for
\* prefix/*path, then the health and metrics endpoints
build(routes) ==
    [ routes |->
        { [pattern |-> kind, path |-> routes[i].path_prefix,
           stack |-> route_handler(routes[i])] :
             i \in DOMAIN routes, kind \in {"exact", "wildcard"} }
        \cup { [pattern |-> "exact", path |-> <<"/health">>,
                stack |-> <<"health_check">>],
               [pattern |-> "exact", path |-> <<"/metrics">>,
                stack |-> <<"get_metrics_handler">>] },
      fallback |-> <<"not_found">> ]

\* Router::layer: the layer wraps every route added so far and the fallback,
\* and runs after the route is matched
layer(router, l) ==
    [ routes |-> { [e EXCEPT !.stack = <<l>> \o @] : e \in router.routes },
      fallback |-> <<l>> \o router.fallback ]

\* configure_middleware
configure_middleware(app) ==
    layer(layer(layer(layer(layer(app, "trace"), "metrics"), "cors"),
                "timeout"), "body-limit")

\* main: the application served
App == configure_middleware(build(Routes))

\* a route pattern matches a path: the path itself, or the path followed by
\* at least one more segment
route_matches(e, path) ==
    IF e.pattern = "exact" THEN path = e.path
    ELSE Len(path) > Len(e.path) /\ starts_with(path, e.path)

\* Router::call: the services of the route matched, or of the fallback
route_match(router, path) ==
    IF \E e \in router.routes : route_matches(e, path)
    THEN (CHOOSE e \in router.routes : route_matches(e, path)).stack
    ELSE router.fallback

\* What a service of the stack does with a request: 0 when it hands the
\* request to the next service, else the status it answers with
run_stage(stage, req) ==
    CASE stage = "body-limit" -> IF req.too_large THEN 413 ELSE 0
      [] stage = "timeout"    -> 0
      [] stage = "cors"       -> IF req.preflight THEN 200 ELSE 0
      [] stage = "metrics"    -> 0
      [] stage = "trace"      -> 0
      [] stage = "auth"       -> IF req.auth_ok THEN 0 ELSE 401
      [] stage = "proxy"      -> 200
      [] stage = "health_check" -> 200
      [] stage = "get_metrics_handler" -> 200
      [] stage = "not_found"  -> 404

PipeSlots == 1..MaxPipeInflight

PipePaths == { <<"/api/auth", "/login">>, <<"/api/users">>,
               <<"/api/users", "/42">>, <<"/health">>, <<"/nowhere">> }

\* A request: its path, whether its Content-Length exceeds the body limit,
\* whether it is a CORS preflight, whether authenticate accepts it
PipeRequests == [path : PipePaths, too_large : BOOLEAN, preflight : BOOLEAN,
                 auth_ok : BOOLEAN]

NoPipeReq == [path |-> <<>>, too_large |-> FALSE, preflight |-> FALSE,
              auth_ok |-> FALSE]

IdlePipe == [pc |-> "idle", req |-> NoPipeReq, rest |-> <<>>, log |-> <<>>,
             status |-> 0]

\* A request arrives: the router matches its route
Arrive(r, req) ==
    /\ pipeReq[r].pc \in {"idle", "done"}
    /\ pipeReq' = [pipeReq EXCEPT ![r] =
          [pc |-> "running", req |-> req, rest |-> route_match(App, req.path),
           log |-> <<"route-match">>, status |-> 0]]
    /\ UNCHANGED exceptPipe

\* The next service of the route is called with the request
RunStage(r) ==
    /\ pipeReq[r].pc = "running"
    /\ LET stage == Head(pipeReq[r].rest)
           out == run_stage(stage, pipeReq[r].req)
       IN pipeReq' = [pipeReq EXCEPT ![r] =
            IF out = 0
            THEN [@ EXCEPT !.rest = Tail(@), !.log = Append(@, stage)]
            ELSE [@ EXCEPT !.pc = "done", !.rest = <<>>,
                           !.log = Append(@, stage), !.status = out]]
    /\ UNCHANGED exceptPipe

PipeInit == pipeReq = [r \in PipeSlots |-> IdlePipe]

PipeNext ==
    \/ \E r \in PipeSlots, req \in PipeRequests : Arrive(r, req)
    \/ \E r \in PipeSlots : RunStage(r)

\* ------------------------------------------------------------------------
\* The rate-limit service
\* ------------------------------------------------------------------------
\* The clock ticks every 100 ms
TicksPerSec == 10

\* config.rate_limit: a global rule, path rules of which one is a longer
\* prefix of another and one is disabled, and a rule for one ip
RLConfig ==
    [ global |-> [requests_per_second |-> 10, burst_size |-> 4, enabled |-> TRUE],
      path_rules |->
        << [path_prefix |-> <<"/api/auth">>,
            rule |-> [requests_per_second |-> 10, burst_size |-> 1, enabled |-> TRUE]],
           [path_prefix |-> <<"/api/auth", "/login">>,
            rule |-> [requests_per_second |-> 5, burst_size |-> 3, enabled |-> TRUE]],
           [path_prefix |-> <<"/api/users">>,
            rule |-> [requests_per_second |-> 10, burst_size |-> 20, enabled |-> FALSE]] >>,
      ip_rules |-> [ip \in {"10.0.0.1"} |->
            [requests_per_second |-> 1, burst_size |-> 1, enabled |-> TRUE]] ]

\* RateLimiter::direct(Quota::per_second(rps).allow_burst(burst)): one cell
\* every t ticks, tolerance tau, no arrival time stored yet (tat = 0)
direct(rule) ==
    LET t == TicksPerSec \div rule.requests_per_second
    IN [t |-> t, tau |-> t * rule.burst_size, tat |-> 0]

\* RateLimitLayer::new: the global limiter whatever its enabled flag, a
\* path limiter per enabled path rule (a later rule of the same prefix
\* replaces an earlier one), an ip limiter per enabled ip rule
RateLimitLayer_new(config) ==
    LET enabled_paths == { i \in DOMAIN config.path_rules :
                             config.path_rules[i].rule.enabled }
        enabled_ips == { ip \in DOMAIN config.ip_rules :
                           config.ip_rules[ip].enabled }
        last_rule(p) == CHOOSE i \in enabled_paths :
                          /\ config.path_rules[i].path_prefix = p
                          /\ \A j \in enabled_paths :
                                config.path_rules[j].path_prefix = p => j <= i
    IN [ global_limiter |-> direct(config.global),
         path_limiters |->
            [ p \in { config.path_rules[i].path_prefix : i \in enabled_paths } |->
                direct(config.path_rules[last_rule(p)].rule) ],
         ip_limiters |-> [ ip \in enabled_ips |-> direct(config.ip_rules[ip]) ] ]

Max(a, b) == IF a >= b THEN a ELSE b

\* The result of a check that consumed a cell
OkCheck == [ok |-> TRUE, earliest |-> 0]

\* The result of a check that found no cell: not until earliest
NotUntil(earliest) == [ok |-> FALSE, earliest |-> earliest]

limiter_check_strict(l, now) ==
    LET tat == IF l.tat = 0 THEN now + l.t ELSE l.tat
        earliest_time == Max(tat - l.tau, 0)
    IN IF now <= earliest_time
       THEN [limiter |-> l, result |-> NotUntil(earliest_time)]
       ELSE [limiter |-> [l EXCEPT !.tat = Max(tat, now) + l.t],
             result |-> OkCheck]

\* RateLimiter::check at time now: the limiter after the check and the result
limiter_check(l, now) ==
    LET tat == IF l.tat = 0 THEN now + l.t ELSE l.tat
        earliest_time == Max(tat - l.tau, 0)
    IN IF now < earliest_time
       THEN [limiter |-> l, result |-> NotUntil(earliest_time)]
       ELSE [limiter |-> [l EXCEPT !.tat = Max(tat, now) + l.t],
             result |-> OkCheck]

\* get_path_limiter taking every prefix of the path that has a limiter
get_path_limiter_every_match(rl, path) ==
    { p \in DOMAIN rl.path_limiters : starts_with(path, p) }

\* get_path_limiter: the prefixes of the path that have a limiter, the
\* longest of them if any (a set of at most one prefix)
get_path_limiter(rl, path) ==
    LET matching == { p \in DOMAIN rl.path_limiters : starts_with(path, p) }
    IN { p \in matching : \A q \in matching : Len(q) <= Len(p) }

\* get_ip_limiter: the limiter of the ip if one was configured or added
get_ip_limiter(rl, ip) == { k \in DOMAIN rl.ip_limiters : k = ip }

\* NotUntil::wait_time_from(now).as_secs(): whole seconds left to wait
wait_secs(result, now) == Max(result.earliest - now, 0) \div TicksPerSec

TOO_MANY_REQUESTS == 429

\* the condition under which the future answers 429
rate_limited_ip_unchecked(global_check, path_check, ip_check) ==
    ~global_check.ok \/ ~path_check.ok

rate_limited(global_check, path_check, ip_check) ==
    ~global_check.ok \/ ~path_check.ok \/ ~ip_check.ok

\* the checks that failed
denied_by(global_check, path_check, ip_check) ==
    { k \in {"global", "path", "ip"} :
        \/ k = "global" /\ ~global_check.ok
        \/ k = "path" /\ ~path_check.ok
        \/ k = "ip" /\ ~ip_check.ok }

too_many_requests_first_wait(global_check, path_check, ip_check, now) ==
    LET wait_time ==
          IF ~global_check.ok THEN wait_secs(global_check, now)
          ELSE IF ~path_check.ok THEN wait_secs(path_check, now)
          ELSE wait_secs(ip_check, now)
    IN [status |-> TOO_MANY_REQUESTS, retry_after_header |-> wait_time,
        retry_after |-> wait_time, inner_calls |-> 0,
        denied_by |-> denied_by(global_check, path_check, ip_check)]

\* the 429 response: Retry-After only when wait_time > 0 (0 stands for no
\* header), the body always carries retry_after
too_many_requests(global_check, path_check, ip_check, now) ==
    LET wait_time ==
          Max(Max(IF global_check.ok THEN 0 ELSE wait_secs(global_check, now),
                  IF path_check.ok THEN 0 ELSE wait_secs(path_check, now)),
              IF ip_check.ok THEN 0 ELSE wait_secs(ip_check, now))
    IN [status |-> TOO_MANY_REQUESTS, retry_after_header |-> wait_time,
        retry_after |-> wait_time, inner_calls |-> 0,
        denied_by |-> denied_by(global_check, path_check, ip_check)]

RLSlots == 1..MaxRLInflight

RLPaths == { <<"/api/auth", "/login">>, <<"/api/auth", "/register">>,
             <<"/api/users", "/42">> }

\* the ip of ConnectInfo, "unknown" without it
RLIps == { "10.0.0.1", "unknown" }

RLRequests == [path : RLPaths, ip : RLIps]

NoRLReq == [path |-> <<>>, ip |-> ""]

IdleRL == [pc |-> "idle", req |-> NoRLReq, global_check |-> OkCheck, path_check |-> OkCheck,
           ip_check |-> OkCheck, inner_calls |-> 0]

NoRLOut == [status |-> 0, retry_after_header |-> 0, retry_after |-> 0,
            inner_calls |-> 0, denied_by |-> {}]

\* call stopping at the first check that fails: a limiter after a failed
\* check is not checked
RLCall_until_denied(r, req) ==
    /\ rlReq[r].pc = "idle"
    /\ LET rl == rate_limit_layer
           g == limiter_check(rl.global_limiter, rlNow)
           pk == IF g.result.ok THEN get_path_limiter(rl, req.path) ELSE {}
           pchk == [ p \in pk |-> limiter_check(rl.path_limiters[p], rlNow) ]
           pok == \A p \in pk : pchk[p].result.ok
           ik == IF g.result.ok /\ pok THEN get_ip_limiter(rl, req.ip) ELSE {}
           ichk == [ k \in ik |-> limiter_check(rl.ip_limiters[k], rlNow) ]
       IN /\ rate_limit_layer' =
               [ global_limiter |-> g.limiter,
                 path_limiters |-> [ p \in DOMAIN rl.path_limiters |->
                      IF p \in pk THEN pchk[p].limiter ELSE rl.path_limiters[p] ],
                 ip_limiters |-> [ k \in DOMAIN rl.ip_limiters |->
                      IF k \in ik THEN ichk[k].limiter ELSE rl.ip_limiters[k] ] ]
          /\ rlReq' = [rlReq EXCEPT ![r] =
               [pc |-> "future", req |-> req,
                global_check |-> g.result,
                path_check |-> IF pk = {} THEN OkCheck
                               ELSE pchk[CHOOSE p \in pk : TRUE].result,
                ip_check |-> IF ik = {} THEN OkCheck
                             ELSE ichk[CHOOSE k \in ik : TRUE].result,
                inner_calls |-> 0]]
    /\ UNCHANGED <<rlNow, rlOut>>
    /\ UNCHANGED exceptRL

\* RateLimitService::call up to the future it returns: the three checks,
\* each taking a cell of its limiter when it has one
RLCall(r, req) ==
    /\ rlReq[r].pc = "idle"
    /\ LET rl == rate_limit_layer
           g == limiter_check(rl.global_limiter, rlNow)
           pk == get_path_limiter(rl, req.path)
           pchk == [ p \in pk |-> limiter_check(rl.path_limiters[p], rlNow) ]
           ik == get_ip_limiter(rl, req.ip)
           ichk == [ k \in ik |-> limiter_check(rl.ip_limiters[k], rlNow) ]
       IN /\ rate_limit_layer' =
               [ global_limiter |-> g.limiter,
                 path_limiters |-> [ p \in DOMAIN rl.path_limiters |->
                      IF p \in pk THEN pchk[p].limiter ELSE rl.path_limiters[p] ],
                 ip_limiters |-> [ k \in DOMAIN rl.ip_limiters |->
                      IF k \in ik THEN ichk[k].limiter ELSE rl.ip_limiters[k] ] ]
          /\ rlReq' = [rlReq EXCEPT ![r] =
               [pc |-> "future", req |-> req,
                global_check |-> g.result,
                path_check |-> IF pk = {} THEN OkCheck
                               ELSE pchk[CHOOSE p \in pk : TRUE].result,
                ip_check |-> IF ik = {} THEN OkCheck
                             ELSE ichk[CHOOSE k \in ik : TRUE].result,
                inner_calls |-> 0]]
    /\ UNCHANGED <<rlNow, rlOut>>
    /\ UNCHANGED exceptRL

\* The future is polled: 429 when a check failed, else the inner service is
\* called with the request
RLPoll(r) ==
    /\ rlReq[r].pc = "future"
    /\ LET q == rlReq[r]
       IN IF rate_limited(q.global_check, q.path_check, q.ip_check)
          THEN /\ rlOut' = too_many_requests(q.global_check, q.path_check,
                                              q.ip_check, rlNow)
               /\ rlReq' = [rlReq EXCEPT ![r] = IdleRL]
          ELSE /\ rlReq' = [rlReq EXCEPT ![r] =
                     [IdleRL EXCEPT !.pc = "inner",
                                    !.inner_calls = q.inner_calls + 1]]
               /\ UNCHANGED rlOut
    /\ UNCHANGED <<rate_limit_layer, rlNow>>
    /\ UNCHANGED exceptRL

\* The inner service answers and its response is handed back unchanged
RLInnerDone(r, status) ==
    /\ rlReq[r].pc = "inner"
    /\ rlOut' = [status |-> status, retry_after_header |-> 0,
                 retry_after |-> 0, inner_calls |-> rlReq[r].inner_calls,
                 denied_by |-> {}]
    /\ rlReq' = [rlReq EXCEPT ![r] = IdleRL]
    /\ UNCHANGED <<rate_limit_layer, rlNow>>
    /\ UNCHANGED exceptRL

\* The limiters' clock advances
RLTick ==
    /\ rlNow < MaxRLNow
    /\ rlNow' = rlNow + 1
    /\ UNCHANGED <<rate_limit_layer, rlReq, rlOut>>
    /\ UNCHANGED exceptRL

\* what the inner service answers with
RLInnerStatuses == {200}

RLInit ==
    /\ rate_limit_layer = RateLimitLayer_new(RLConfig)
    /\ rlNow = 0
    /\ rlReq = [r \in RLSlots |-> IdleRL]
    /\ rlOut = NoRLOut

RLNext ==
    \/ \E r \in RLSlots, req \in RLRequests : RLCall(r, req)
    \/ \E r \in RLSlots : RLPoll(r)
    \/ \E r \in RLSlots, status \in RLInnerStatuses : RLInnerDone(r, status)
    \/ RLTick

\* ------------------------------------------------------------------------
\* One limiter taken alone
\* ------------------------------------------------------------------------
\* the rules RateLimitLayer::new makes a limiter of
BucketRules ==
    { RLConfig.global }
    \cup { RLConfig.path_rules[i].rule : i \in { j \in DOMAIN RLConfig.path_rules :
                                                 RLConfig.path_rules[j].rule.enabled } }
    \cup { RLConfig.ip_rules[ip] : ip \in { k \in DOMAIN RLConfig.ip_rules :
                                             RLConfig.ip_rules[k].enabled } }

\* a check of the limiter, as RateLimitService::call makes it
BucketCheck ==
    /\ LET c == limiter_check(bucket, bkNow)
           first == IF bkFirst = -1 THEN bkNow ELSE bkFirst
       IN /\ bucket' = c.limiter
          /\ bkFirst' = first
          /\ bkAdmitted' = IF first = bkNow /\ c.result.ok
                           THEN bkAdmitted + 1 ELSE bkAdmitted
          /\ bkDenied' = (bkDenied \/ (first = bkNow /\ ~c.result.ok))
    /\ UNCHANGED bkNow
    /\ UNCHANGED exceptBucket

\* The limiter's clock advances
BucketTick ==
    /\ bkNow < MaxBkNow
    /\ bkNow' = bkNow + 1
    /\ UNCHANGED <<bucket, bkFirst, bkAdmitted, bkDenied>>
    /\ UNCHANGED exceptBucket

BucketInit ==
    /\ bucket \in { direct(rule) : rule \in BucketRules }
    /\ bkNow = 0
    /\ bkFirst = -1
    /\ bkAdmitted = 0
    /\ bkDenied = FALSE

BucketNext == BucketCheck \/ BucketTick

\* The single limiter at rest
BucketIdle ==
    /\ bucket = direct(RLConfig.global)
    /\ bkNow = 0
    /\ bkFirst = -1
    /\ bkAdmitted = 0
    /\ bkDenied = FALSE

\* ------------------------------------------------------------------------
\* Service discovery
\* ------------------------------------------------------------------------
\* a field absent from a catalog entry
NoField == "<absent>"

\* the address built from a catalog entry: a sequence of one address, or of
\* none when the entry is skipped
entry_address(service) ==
    IF service.ServiceAddress = NoField \/ service.ServicePort = NoField
    THEN <<>>
    ELSE IF service.ServiceAddress = ""
         THEN IF service.Address = NoField
              THEN <<>>
              ELSE << <<"http://", service.Address, service.ServicePort>> >>
         ELSE << <<"http://", service.ServiceAddress, service.ServicePort>> >>

\* the addresses built from the entries of an answer, in their order
RECURSIVE catalog_addresses(_)
catalog_addresses(entries) ==
    IF entries = <<>> THEN <<>>
    ELSE entry_address(Head(entries)) \o catalog_addresses(Tail(entries))

\* What Consul does with a lookup: no answer, an answer of a status that is
\* not a success, an answer that is not a JSON list, or a list of entries
SendError == [kind |-> "send_error", entries |-> <<>>]

HttpError == [kind |-> "http_error", entries |-> <<>>]

BadJson == [kind |-> "bad_json", entries |-> <<>>]

Catalog(entries) == [kind |-> "ok", entries |-> entries]

Entry(sa, addr, port) == [ServiceAddress |-> sa, Address |-> addr, ServicePort |-> port]

RegistryAnswers ==
    { SendError, HttpError, BadJson,
      Catalog(<<>>),
      Catalog(<< Entry("", NoField, "8080"), Entry("10.1.0.2", "node1", NoField) >>),
      Catalog(<< Entry("10.1.0.1", "node1", "8080") >>),
      Catalog(<< Entry("10.1.0.1", "node1", "8080"), Entry("", "node2", "8080") >>) }

ServiceNames == { "auth-service", "user-service" }

cached_addresses_ignored(cache, service_name) == <<>>

\* discover_service, from the cache: the addresses cached under the name,
\* <<>> when the name is absent or its list empty
cached_addresses(cache, service_name) ==
    IF service_name \in DOMAIN cache THEN cache[service_name] ELSE <<>>

\* a function with one more entry, or one entry replaced
insert(map, key, value) ==
    [ k \in DOMAIN map \cup {key} |-> IF k = key THEN value ELSE map[k] ]

discover_from_consul_caches_empty(cache, service_name, answer) ==
    LET addresses == catalog_addresses(answer.entries)
    IN IF answer.kind # "ok"
       THEN [services |-> cache, ok |-> FALSE, addresses |-> <<>>]
       ELSE [services |-> insert(cache, service_name, addresses),
             ok |-> addresses # <<>>, addresses |-> addresses]

\* discover_service, after the cache missed: the cache and the result that
\* follow from the answer of Consul
discover_from_consul(cache, service_name, answer) ==
    LET addresses == catalog_addresses(answer.entries)
    IN IF answer.kind # "ok" \/ addresses = <<>>
       THEN [services |-> cache, ok |-> FALSE, addresses |-> <<>>]
       ELSE [services |-> insert(cache, service_name, addresses),
             ok |-> TRUE, addresses |-> addresses]

\* the callers of discover_service: 0 is the refresh task, the others are
\* requests in get_service_url
RefreshTask == 0

SdSlots == 1..MaxSdInflight

SdCallers == {RefreshTask} \cup SdSlots

IdleSd == [pc |-> "idle", service_name |-> "", caller |-> ""]

NoSdOut == [caller |-> "", service_name |-> "", ok |-> FALSE,
            addresses |-> <<>>, url |-> <<>>, lookups |-> 0]

\* the result of discover_service as its caller sees it: get_service_url
\* picks one of the addresses, refresh_services only logs
sd_result(caller, service_name, ok, addresses, idx, lookups) ==
    [caller |-> caller, service_name |-> service_name, ok |-> ok,
     addresses |-> addresses,
     url |-> IF ok /\ caller = "resolve" THEN addresses[idx] ELSE <<>>,
     lookups |-> lookups]

\* the indexes random_range(0..len) may pick, 1 when there is nothing to pick
Indexes(addresses) == IF addresses = <<>> THEN {1} ELSE DOMAIN addresses

\* get_service_url kept from the cache while another call is waiting for
\* Consul, as it would be were the map's lock held across that call
Resolve_behind_lookups(r, service_name) ==
    /\ sdReq[r].pc = "idle"
    /\ \A r2 \in SdCallers : sdReq[r2].pc # "lookup"
    /\ LET cached == cached_addresses(services, service_name)
       IN \/ /\ cached # <<>>
             /\ \E idx \in DOMAIN cached :
                   sdOut' = sd_result("resolve", service_name, TRUE, cached, idx, 0)
             /\ UNCHANGED sdReq
          \/ /\ cached = <<>>
             /\ sdReq' = [sdReq EXCEPT ![r] =
                   [pc |-> "lookup", service_name |-> service_name,
                    caller |-> "resolve"]]
             /\ UNCHANGED sdOut
    /\ UNCHANGED <<services, registry, sdRefresh>>
    /\ UNCHANGED exceptSd

\* get_service_url up to the answer of Consul: an address of the cached
\* list, or a lookup when the cache has none
Resolve(r, service_name) ==
    /\ sdReq[r].pc = "idle"
    /\ LET cached == cached_addresses(services, service_name)
       IN \/ /\ cached # <<>>
             /\ \E idx \in DOMAIN cached :
                   sdOut' = sd_result("resolve", service_name, TRUE, cached, idx, 0)
             /\ UNCHANGED sdReq
          \/ /\ cached = <<>>
             /\ sdReq' = [sdReq EXCEPT ![r] =
                   [pc |-> "lookup", service_name |-> service_name,
                    caller |-> "resolve"]]
             /\ UNCHANGED sdOut
    /\ UNCHANGED <<services, registry, sdRefresh>>
    /\ UNCHANGED exceptSd

\* Consul answers a lookup: the rest of discover_service and of its caller
LookupAnswer(r) ==
    /\ sdReq[r].pc = "lookup"
    /\ LET q == sdReq[r]
           d == discover_from_consul(services, q.service_name,
                                     registry[q.service_name])
       IN /\ services' = d.services
          /\ \E idx \in Indexes(d.addresses) :
                sdOut' = sd_result(q.caller, q.service_name, d.ok, d.addresses,
                                   idx, 1)
          /\ sdRefresh' = IF r = RefreshTask
                          THEN sdRefresh \ {q.service_name} ELSE sdRefresh
    /\ sdReq' = [sdReq EXCEPT ![r] = IdleSd]
    /\ UNCHANGED registry
    /\ UNCHANGED exceptSd

\* refresh_services begins: it takes the names cached at present
RefreshStart ==
    /\ sdRefresh = {}
    /\ sdReq[RefreshTask].pc = "idle"
    /\ DOMAIN services # {}
    /\ sdRefresh' = DOMAIN services
    /\ UNCHANGED <<services, registry, sdReq, sdOut>>
    /\ UNCHANGED exceptSd

RefreshOne_evicts_failed(service_name) ==
    /\ service_name \in sdRefresh
    /\ sdReq[RefreshTask].pc = "idle"
    /\ LET d == discover_from_consul(services, service_name, registry[service_name])
       IN /\ services' = IF d.ok THEN d.services
                         ELSE [ n \in DOMAIN services \ {service_name} |-> services[n] ]
          /\ sdOut' = sd_result("refresh", service_name, d.ok, d.addresses, 1, 1)
    /\ sdRefresh' = sdRefresh \ {service_name}
    /\ UNCHANGED <<registry, sdReq>>
    /\ UNCHANGED exceptSd

\* refresh_services visits one name: discover_service, which answers from
\* the cache when the cache has addresses for the name
RefreshOne(service_name) ==
    /\ service_name \in sdRefresh
    /\ sdReq[RefreshTask].pc = "idle"
    /\ LET cached == cached_addresses(services, service_name)
       IN IF cached # <<>>
          THEN /\ sdOut' = sd_result("refresh", service_name, TRUE, cached, 1, 0)
               /\ sdRefresh' = sdRefresh \ {service_name}
               /\ UNCHANGED sdReq
          ELSE /\ sdReq' = [sdReq EXCEPT ![RefreshTask] =
                     [pc |-> "lookup", service_name |-> service_name,
                      caller |-> "refresh"]]
               /\ UNCHANGED <<sdOut, sdRefresh>>
    /\ UNCHANGED <<services, registry>>
    /\ UNCHANGED exceptSd

\* Consul comes to answer differently for a name
RegistryChange(service_name, answer) ==
    /\ registry[service_name] # answer
    /\ registry' = [registry EXCEPT ![service_name] = answer]
    /\ UNCHANGED <<services, sdReq, sdRefresh, sdOut>>
    /\ UNCHANGED exceptSd

\* ServiceDiscovery::new: nothing cached
SdNew ==
    /\ services = [n \in {} |-> <<>>]
    /\ sdReq = [r \in SdCallers |-> IdleSd]
    /\ sdRefresh = {}
    /\ sdOut = NoSdOut

SdInit == SdNew /\ registry \in [ServiceNames -> {SendError}]

SdNext ==
    \/ \E r \in SdSlots, n \in ServiceNames : Resolve(r, n)
    \/ \E r \in SdCallers : LookupAnswer(r)
    \/ RefreshStart
    \/ \E n \in ServiceNames : RefreshOne(n)
    \/ \E n \in ServiceNames, answer \in RegistryAnswers : RegistryChange(n, answer)

\* ------------------------------------------------------------------------
\* authenticate
\* ------------------------------------------------------------------------
\* The variants of Error that authenticate returns
Unauthorized == "Unauthorized"
TokenExpired == "TokenExpired"
InvalidToken == "InvalidToken"
InvalidIssuer == "InvalidIssuer"
InvalidApiKey == "InvalidApiKey"
ApiKeyExpired == "ApiKeyExpired"
Internal == "Internal"

UNAUTHORIZED == 401
INTERNAL_SERVER_ERROR == 500

\* impl IntoResponse for Error: the status of each variant
into_response(error) ==
    CASE error \in {Unauthorized, TokenExpired, InvalidToken, InvalidIssuer,
                    InvalidApiKey, ApiKeyExpired} -> UNAUTHORIZED
      [] error = Internal -> INTERNAL_SERVER_ERROR

\* get_client_ip: the first item of X-Forwarded-For, else X-Real-IP; NoField
\* stands for None, and <<>> for a request without X-Forwarded-For
get_client_ip(request) ==
    IF request.x_forwarded_for # <<>> THEN request.x_forwarded_for[1]
    ELSE request.x_real_ip

\* jwt::extract_token and oauth2::extract_oauth_token: the token of the
\* Authorization header, NoField when the header or its prefix is missing
extract_token(request) == request.token

\* The signed tokens a client may present, by their claims
Tokens ==
    [ t \in {"tok-home", "tok-away", "tok-old"} |->
        [ iss      |-> IF t = "tok-away" THEN "elsewhere" ELSE "chrisim",
          expired  |-> t = "tok-old",
          sub      |-> IF t = "tok-away" THEN "7" ELSE "42",
          username |-> IF t = "tok-away" THEN "mallory" ELSE "alice",
          roles    |-> IF t = "tok-away" THEN <<"admin">> ELSE <<"user">> ] ]

\* UserInfo, and the request extensions without one
UserInfo(user_id, username, roles) ==
    [user_id |-> user_id, username |-> username, roles |-> roles]

NoUserInfo == UserInfo(NoField, "", <<>>)

\* the issuers handed to Validation: none unless verify_issuer is set and
\* allowed_issuers has a member
validation_iss(jwt_config) ==
    IF jwt_config.verify_issuer /\ jwt_config.allowed_issuers # {}
    THEN [set |-> TRUE, issuers |-> jwt_config.allowed_issuers]
    ELSE [set |-> FALSE, issuers |-> {}]

\* jwt::verify_token
verify_token(token, jwt_config) ==
    IF token \notin DOMAIN Tokens
        THEN [ok |-> FALSE, error |-> InvalidToken, user_info |-> NoUserInfo]
    ELSE IF Tokens[token].expired
        THEN [ok |-> FALSE, error |-> TokenExpired, user_info |-> NoUserInfo]
    ELSE IF validation_iss(jwt_config).set
            /\ Tokens[token].iss \notin validation_iss(jwt_config).issuers
        THEN [ok |-> FALSE, error |-> InvalidIssuer, user_info |-> NoUserInfo]
    ELSE [ok |-> TRUE, error |-> "",
          user_info |-> UserInfo(Tokens[token].sub, Tokens[token].username,
                                 Tokens[token].roles)]

\* api_key.api_keys of the configuration
ApiKeys ==
    [ k \in {"key-live", "key-off", "key-old", "key-nobody"} |->
        [ enabled    |-> k # "key-off",
          expires_at |-> IF k = "key-old" THEN "past" ELSE NoField,
          user_id    |-> IF k = "key-nobody" THEN NoField ELSE "1",
          name       |-> k,
          permissions |-> <<"service">> ] ]

\* the api-key branch of authenticate
check_api_key(api_keys, api_key) ==
    IF api_key = NoField \/ api_key \notin DOMAIN api_keys
        THEN [ok |-> FALSE, error |-> InvalidApiKey, user_info |-> NoUserInfo]
    ELSE IF ~api_keys[api_key].enabled
        THEN [ok |-> FALSE, error |-> InvalidApiKey, user_info |-> NoUserInfo]
    ELSE IF api_keys[api_key].expires_at = "past"
        THEN [ok |-> FALSE, error |-> ApiKeyExpired, user_info |-> NoUserInfo]
    ELSE IF api_keys[api_key].expires_at = "unparsable"
        THEN [ok |-> FALSE, error |-> Internal, user_info |-> NoUserInfo]
    ELSE IF api_keys[api_key].user_id = NoField
        THEN [ok |-> FALSE, error |-> Internal, user_info |-> NoUserInfo]
    ELSE [ok |-> TRUE, error |-> "",
          user_info |-> UserInfo(api_keys[api_key].user_id, api_keys[api_key].name,
                                 api_keys[api_key].permissions)]

\* the user the oauth2 branch of authenticate makes up
OAuthUser == UserInfo("10000", "oauth_user", <<"user">>)

\* what authenticate gives back: next.run(request) with the user put into
\* the request extensions, or an Error turned into its response
forward_as(request, user_info) ==
    [request |-> request, forwarded |-> TRUE, next_runs |-> 1, status |-> 200,
     error |-> "", user_info |-> user_info]

forward(request) == forward_as(request, NoUserInfo)

reject(request, error) ==
    [request |-> request, forwarded |-> FALSE, next_runs |-> 0,
     status |-> into_response(error), error |-> error, user_info |-> NoUserInfo]

\* authenticate
authenticate(config, request) ==
    IF \E p \in config.path_whitelist : starts_with(request.path, p)
        THEN forward(request)
    ELSE IF get_client_ip(request) # NoField
            /\ get_client_ip(request) \in config.ip_whitelist
        THEN forward(request)
    ELSE IF config.jwt_enabled
        THEN IF extract_token(request) = NoField THEN reject(request, Unauthorized)
             ELSE IF ~verify_token(extract_token(request), config.jwt).ok
                 THEN reject(request, verify_token(extract_token(request), config.jwt).error)
             ELSE forward_as(request,
                             verify_token(extract_token(request), config.jwt).user_info)
    ELSE IF config.api_key_enabled
        THEN IF check_api_key(config.api_keys, request.api_key).ok
                 THEN forward_as(request,
                                 check_api_key(config.api_keys, request.api_key).user_info)
             ELSE reject(request, check_api_key(config.api_keys, request.api_key).error)
    ELSE IF config.oauth2_enabled
        THEN IF extract_token(request) = NoField THEN reject(request, Unauthorized)
             ELSE forward_as(request, OAuthUser)
    ELSE reject(request, Unauthorized)

\* auth_middleware: the body is collected first, then authenticate runs
auth_middleware(config, request) ==
    IF ~request.body_ok THEN reject(request, Internal)
    ELSE authenticate(config, request)

\* the methods config.auth may enable
AuthMethods ==
    { [jwt |-> FALSE, api_key |-> FALSE, oauth2 |-> FALSE],
      [jwt |-> TRUE,  api_key |-> FALSE, oauth2 |-> FALSE],
      [jwt |-> FALSE, api_key |-> TRUE,  oauth2 |-> FALSE],
      [jwt |-> FALSE, api_key |-> FALSE, oauth2 |-> TRUE],
      [jwt |-> TRUE,  api_key |-> TRUE,  oauth2 |-> TRUE] }

JwtConfigs ==
    [ verify_issuer : BOOLEAN, allowed_issuers : { {}, {"chrisim"} } ]

AuthConfigs ==
    { [ path_whitelist  |-> pw,
        ip_whitelist    |-> iw,
        jwt_enabled     |-> m.jwt,
        api_key_enabled |-> m.api_key,
        oauth2_enabled  |-> m.oauth2,
        jwt             |-> j,
        api_keys        |-> ApiKeys ] :
      pw \in { {}, { <<"/api/auth">> } }, iw \in { {}, { "10.0.0.1" } },
      m \in AuthMethods, j \in JwtConfigs }

\* The requests: peer is the address of the socket the request came in on
AuthRequests ==
    [ path            : { <<"/api/auth", "/login">>, <<"/api/users", "/1">> },
      x_forwarded_for : { <<>>, <<"10.0.0.1", "10.0.0.9">>, <<"10.0.0.9">> },
      x_real_ip       : { NoField, "10.0.0.1" },
      peer            : { "10.0.0.1", "10.0.0.9" },
      token           : { NoField, "tok-home", "tok-away", "tok-old" },
      api_key         : { NoField, "key-live", "key-old", "key-nobody" },
      body_ok         : BOOLEAN ]

NoAuthOut ==
    [ request |-> [ path |-> <<>>, x_forwarded_for |-> <<>>, x_real_ip |-> NoField,
                    peer |-> NoField, token |-> NoField, api_key |-> NoField,
                    body_ok |-> TRUE ],
      forwarded |-> FALSE, next_runs |-> 0, status |-> 0, error |-> "",
      user_info |-> NoUserInfo ]

\* auth_middleware: one request goes through the auth stage
Authenticate(request) ==
    /\ authOut = NoAuthOut
    /\ authOut' = auth_middleware(authConfig, request)
    /\ UNCHANGED authConfig
    /\ UNCHANGED exceptAuth

\* the response of the request has left; the stage takes the next request
AuthRespond ==
    /\ authOut # NoAuthOut
    /\ authOut' = NoAuthOut
    /\ UNCHANGED authConfig
    /\ UNCHANGED exceptAuth

AuthIdle ==
    /\ authConfig = [ path_whitelist |-> {}, ip_whitelist |-> {},
                      jwt_enabled |-> TRUE, api_key_enabled |-> FALSE,
                      oauth2_enabled |-> FALSE,
                      jwt |-> [verify_issuer |-> FALSE, allowed_issuers |-> {}],
                      api_keys |-> ApiKeys ]
    /\ authOut = NoAuthOut

AuthInit ==
    /\ authConfig \in AuthConfigs
    /\ authOut = NoAuthOut

AuthNext ==
    \/ \E request \in AuthRequests : Authenticate(request)
    \/ AuthRespond

\* ------------------------------------------------------------------------
\* ServiceProxy::forward_http_request
\* ------------------------------------------------------------------------
\* Paths and header values are strings cut into pieces, a "/" or "," or "?"
\* being a piece of its own, so that prefixes and concatenation are those of
\* the strings.
PAYLOAD_TOO_LARGE == 413
METHOD_NOT_ALLOWED == 405
BAD_GATEWAY == 502

\* RouteRule, with the fields the proxy reads; replace_prefix is NoRewrite
\* when path_rewrite or its replace_prefix is None
NoRewrite == <<"<none>">>

RouteRule(id, path_prefix, replace_prefix) ==
    [id |-> id, path_prefix |-> path_prefix, replace_prefix |-> replace_prefix]

NoRule == RouteRule("", <<>>, NoRewrite)

\* apply_path_rewrite, for a rule without regex_match
apply_path_rewrite(path, path_prefix, replace_prefix) ==
    IF replace_prefix # NoRewrite /\ starts_with(path, path_prefix)
    THEN replace_prefix \o SubSeq(path, Len(path_prefix) + 1, Len(path))
    ELSE path

\* config.routes.routes.iter().find(..): the first rule, in the order of the
\* table, whose path_prefix begins the path
RECURSIVE find_route_rule(_, _)
find_route_rule(routes, path) ==
    IF routes = <<>> THEN NoRule
    ELSE IF starts_with(path, Head(routes).path_prefix) THEN Head(routes)
    ELSE find_route_rule(Tail(routes), path)

\* the target path of the upstream call
target_path(routes, path, path_query) ==
    LET rule == find_route_rule(routes, path)
    IN IF rule # NoRule
       THEN apply_path_rewrite(path_query, rule.path_prefix, rule.replace_prefix)
       ELSE path_query

\* roles.join(",")
RECURSIVE join(_)
join(roles) ==
    IF roles = <<>> THEN <<>>
    ELSE IF Len(roles) = 1 THEN <<roles[1]>>
    ELSE <<roles[1], ",">> \o join(Tail(roles))

\* the headers of the client request that are copied to the upstream request
RECURSIVE forwarded_headers(_)
forwarded_headers(headers) ==
    IF headers = <<>> THEN <<>>
    ELSE IF Head(headers)[1] \in {"host", "content-length"}
        THEN forwarded_headers(Tail(headers))
    ELSE <<Head(headers)>> \o forwarded_headers(Tail(headers))

\* the headers made from the UserInfo of the request extensions; each is
\* added to those already on the upstream request
user_headers(user_info) ==
    IF user_info = NoUserInfo THEN <<>>
    ELSE << <<"x-user-id", <<user_info.user_id>>>>,
            <<"x-username", <<user_info.username>>>> >>
         \o ( IF user_info.roles # <<>>
              THEN << <<"x-user-roles", join(user_info.roles)>> >>
              ELSE <<>> )

\* axum::body::to_bytes(body, 10 MB).unwrap_or_default(): nothing when the
\* body runs past the limit
body_bytes(body) == IF body = "fits" THEN "payload" ELSE ""

MethodsWithBody == {"POST", "PUT", "PATCH"}
MethodsWithoutBody == {"GET", "DELETE", "HEAD", "OPTIONS"}

\* the request forward_http_request builds for the upstream
client_req(routes, req) ==
    [ method  |-> req.method,
      path    |-> target_path(routes, req.path, req.path \o req.query),
      body    |-> IF req.method \in MethodsWithBody THEN body_bytes(req.body) ELSE "",
      headers |-> forwarded_headers(req.headers) \o user_headers(req.user_info)
                  \o << <<"x-original-path", req.path>>,
                        <<"x-original-method", <<req.method>>>> >> ]

NoClientReq == [method |-> "", path |-> <<>>, body |-> "", headers |-> <<>>]

\* HeaderMap::insert: the value takes the place of every value of the name
insert_header(headers, name, value) ==
    LET Other(h) == h[1] # name
    IN SelectSeq(headers, Other) \o << <<name, value>> >>

\* the loop that copies the upstream's headers into the response
RECURSIVE copy_headers(_, _)
copy_headers(from, into) ==
    IF from = <<>> THEN into
    ELSE copy_headers(Tail(from), insert_header(into, Head(from)[1], Head(from)[2]))

\* the response built from the upstream's: resp.bytes().await.unwrap_or_default()
\* is empty when the body cannot be read
upstream_response(resp) ==
    [ status  |-> resp.status,
      headers |-> copy_headers(resp.headers, <<>>),
      body    |-> IF resp.body_ok THEN resp.body ELSE "" ]

error_response(status, error) ==
    [ status |-> status, headers |-> << <<"content-type", <<"application/json">>>> >>,
      body |-> error ]

NoResponse == [status |-> 0, headers |-> <<>>, body |-> ""]

\* HttpClient::send_with_retry and is_retryable_error: the request is sent
\* once; sends counts the sends made
is_retryable_error(err) == err \in {"timeout", "connect", "reset"}

send_with_retry(outcome, retries) ==
    [ result |-> outcome, sends |-> 1 ]

\* The route tables: rules whose prefixes begin one another, in every order
RuleApi == RouteRule("api", <<"/", "api">>, <<"/", "v1">>)
RuleAuth == RouteRule("auth-service", <<"/", "api", "/", "auth">>, <<"/">>)
RuleUsers == RouteRule("user-service", <<"/", "api", "/", "users">>, NoRewrite)

RouteTables ==
    { <<RuleAuth, RuleUsers>>,
      <<RuleApi, RuleAuth, RuleUsers>>, <<RuleAuth, RuleUsers, RuleApi>>,
      <<RuleUsers, RuleApi, RuleAuth>> }

ProxyConfigs == [ routes : RouteTables, max_retries : 0..MaxRetries ]

\* The requests that reach the proxy: body is "fits", or "over_declared"
\* (Content-Length above the limit), or "over_streamed" (no Content-Length,
\* and more bytes than the limit)
ProxyRequests ==
    [ method    : { "GET", "POST", "TRACE" },
      path      : { <<"/", "api", "/", "auth", "/", "ping">>,
                    <<"/", "api", "/", "users", "/", "1">> },
      query     : { <<>>, <<"?", "x=1">> },
      headers   : { <<>>,
                    << <<"host", <<"gateway">>>>, <<"accept", <<"*/*">>>> >>,
                    << <<"x-user-id", <<"1">>>>, <<"x-user-roles", <<"admin">>>> >> },
      user_info : { NoUserInfo, UserInfo("42", "alice", <<"user", "ops">>),
                    UserInfo("43", "bob", <<>>) },
      body      : { "fits", "over_declared", "over_streamed" } ]

NoProxyRequest ==
    [ method |-> "", path |-> <<>>, query |-> <<>>, headers |-> <<>>,
      user_info |-> NoUserInfo, body |-> "" ]

\* What the upstream does with a request
UpstreamResponses ==
    [ status  : { 200, 503 },
      headers : { << <<"content-type", <<"text/plain">>>> >>,
                  << <<"set-cookie", <<"a=1">>>>, <<"set-cookie", <<"b=2">>>> >> },
      body    : { "answer" },
      body_ok : BOOLEAN ]

UpstreamErrors == { "connect", "timeout", "reset", "decode" }

NoUpstream == [kind |-> "none", error |-> "", response |-> NoResponse, body_ok |-> TRUE]

IdleProxy == [pc |-> "idle", request |-> NoProxyRequest, rule_id |-> "",
              client_req |-> NoClientReq, sends |-> 0]

NoProxyOut ==
    [ request |-> NoProxyRequest, rule_id |-> "", client_req |-> NoClientReq,
      sends |-> 0, upstream |-> NoUpstream, response |-> NoResponse ]

proxy_out(px, upstream, response) ==
    [ request |-> px.request, rule_id |-> px.rule_id, client_req |-> px.client_req,
      sends |-> px.sends, upstream |-> upstream, response |-> response ]

\* A request comes through RequestBodyLimitLayer to forward_http_request,
\* which sends its upstream request, or answers itself
ForwardHttp(req) ==
    /\ pxReq.pc = "idle"
    /\ pxOut = NoProxyOut
    /\ IF req.body = "over_declared"
       THEN /\ pxOut' = proxy_out([IdleProxy EXCEPT !.request = req], NoUpstream,
                                  error_response(PAYLOAD_TOO_LARGE, "length limit exceeded"))
            /\ UNCHANGED pxReq
       ELSE IF req.method \notin MethodsWithBody \cup MethodsWithoutBody
       THEN /\ pxOut' = proxy_out([IdleProxy EXCEPT
                                     !.request = req,
                                     !.rule_id = find_route_rule(pxConfig.routes, req.path).id],
                                  NoUpstream,
                                  error_response(METHOD_NOT_ALLOWED, "method_not_allowed"))
            /\ UNCHANGED pxReq
       ELSE /\ pxReq' = [ pc |-> "sent", request |-> req,
                          rule_id |-> find_route_rule(pxConfig.routes, req.path).id,
                          client_req |-> client_req(pxConfig.routes, req),
                          sends |-> 1 ]
            /\ UNCHANGED pxOut
    /\ UNCHANGED pxConfig
    /\ UNCHANGED exceptProxy

\* client_req.send() returns Ok(resp)
UpstreamResponds(resp) ==
    /\ pxReq.pc = "sent"
    /\ pxOut' = proxy_out(pxReq,
                          [kind |-> "ok", error |-> "",
                           response |-> [status |-> resp.status, headers |-> resp.headers,
                                         body |-> resp.body],
                           body_ok |-> resp.body_ok],
                          upstream_response(resp))
    /\ pxReq' = IdleProxy
    /\ UNCHANGED pxConfig
    /\ UNCHANGED exceptProxy

\* client_req.send() returns Err(e)
UpstreamFails(err) ==
    /\ pxReq.pc = "sent"
    /\ pxOut' = proxy_out(pxReq,
                          [kind |-> "err", error |-> err, response |-> NoResponse,
                           body_ok |-> TRUE],
                          error_response(BAD_GATEWAY, "bad_gateway"))
    /\ pxReq' = IdleProxy
    /\ UNCHANGED pxConfig
    /\ UNCHANGED exceptProxy

\* HttpClient::get: one call of send_with_retry whose request fails with err
HttpClientGet(err) ==
    /\ pxReq.pc = "idle"
    /\ pxOut = NoProxyOut
    /\ LET sent == send_with_retry(err, pxConfig.max_retries)
       IN pxOut' = [ NoProxyOut EXCEPT
                       !.client_req = [NoClientReq EXCEPT !.method = "GET"],
                       !.sends = sent.sends,
                       !.upstream = [kind |-> "err", error |-> sent.result,
                                     response |-> NoResponse, body_ok |-> TRUE] ]
    /\ UNCHANGED <<pxConfig, pxReq>>
    /\ UNCHANGED exceptProxy

\* the response has left; the proxy takes the next request
ProxyRespond ==
    /\ pxOut # NoProxyOut
    /\ pxOut' = NoProxyOut
    /\ UNCHANGED <<pxConfig, pxReq>>
    /\ UNCHANGED exceptProxy

ProxyIdle ==
    /\ pxConfig = [routes |-> <<RuleAuth, RuleUsers>>, max_retries |-> 0]
    /\ pxReq = IdleProxy
    /\ pxOut = NoProxyOut

ProxyInit ==
    /\ pxConfig \in ProxyConfigs
    /\ pxReq = IdleProxy
    /\ pxOut = NoProxyOut

ProxyNext ==
    \/ \E req \in ProxyRequests : ForwardHttp(req)
    \/ \E resp \in UpstreamResponses : UpstreamResponds(resp)
    \/ \E err \in UpstreamErrors : UpstreamFails(err)
    \/ \E err \in UpstreamErrors : HttpClientGet(err)
    \/ ProxyRespond

\* ------------------------------------------------------------------------
\* load_config and the configuration watcher
\* ------------------------------------------------------------------------
\* GatewayConfig::default(), and the configurations a file may describe
DefaultConfig == "default"

FileConfigs == { "v1", "v2" }

\* The file: whether it can be read, its extension, the syntax its content
\* is written in ("none": neither YAML nor JSON, or not a GatewayConfig) and
\* the configuration the content describes
ConfigFiles ==
    [ readable  : BOOLEAN,
      extension : { "yaml", "yml", "json", "toml" },
      syntax    : { "yaml", "json", "none" },
      config    : FileConfigs ]

\* serde_yaml::from_str and serde_json::from_str: a JSON text is a YAML text
from_str(format, file) ==
    IF format = "yaml" /\ file.syntax \in {"yaml", "json"}
        THEN [ok |-> TRUE, config |-> file.config]
    ELSE IF format = "json" /\ file.syntax = "json"
        THEN [ok |-> TRUE, config |-> file.config]
    ELSE [ok |-> FALSE, config |-> ""]

\* reading and parsing the file, as load_config and the watcher's task do
read_config(file) ==
    IF ~file.readable THEN [ok |-> FALSE, error |-> "read", config |-> ""]
    ELSE IF file.extension \in {"yaml", "yml"}
        THEN IF from_str("yaml", file).ok
             THEN [ok |-> TRUE, error |-> "", config |-> from_str("yaml", file).config]
             ELSE [ok |-> FALSE, error |-> "parse", config |-> ""]
    ELSE IF file.extension = "json"
        THEN IF from_str("json", file).ok
             THEN [ok |-> TRUE, error |-> "", config |-> from_str("json", file).config]
             ELSE [ok |-> FALSE, error |-> "parse", config |-> ""]
    ELSE [ok |-> FALSE, error |-> "extension", config |-> ""]

\* the global configuration after load_config has read the file
reloaded(config, file) ==
    IF read_config(file).ok THEN read_config(file).config ELSE config

NoLoad == [kind |-> "none", ok |-> TRUE, error |-> "", before |-> DefaultConfig,
           served_since |-> FALSE]

load_result(kind, config, file) ==
    [ kind |-> kind, ok |-> read_config(file).ok, error |-> read_config(file).error,
      before |-> config, served_since |-> FALSE ]

\* load_config at start, before main takes its read guard of CONFIG: the
\* watcher is set up only after a successful load, and main returns the
\* error of a failed one
LoadConfig ==
    /\ lastLoad = NoLoad
    /\ CONFIG' = reloaded(CONFIG, configFile)
    /\ watching' = read_config(configFile).ok
    /\ lastLoad' = load_result("load", CONFIG, configFile)
    /\ UNCHANGED <<configFile, reloadTasks, writers, served>>
    /\ UNCHANGED exceptConfig

\* the file is written or replaced. The watcher's callback calls
\* tokio::spawn on the watcher's own thread: the task is spawned, or the call
\* panics there and the watcher is gone
FileChange(file, spawned) ==
    /\ file # configFile
    /\ configFile' = file
    /\ IF watching /\ spawned
       THEN /\ reloadTasks' = IF reloadTasks + writers < MaxReloads
                              THEN reloadTasks + 1 ELSE reloadTasks
            /\ UNCHANGED watching
       ELSE /\ watching' = FALSE
            /\ UNCHANGED reloadTasks
    /\ UNCHANGED <<CONFIG, writers, lastLoad, served>>
    /\ UNCHANGED exceptConfig

Reload_resets_on_error ==
    /\ reloadTasks > 0
    /\ reloadTasks' = reloadTasks - 1
    /\ IF read_config(configFile).ok
       THEN writers' = writers + 1 /\ UNCHANGED CONFIG
       ELSE CONFIG' = DefaultConfig /\ UNCHANGED writers
    /\ lastLoad' = load_result("reload", CONFIG, configFile)
    /\ UNCHANGED <<configFile, watching, served>>
    /\ UNCHANGED exceptConfig

\* a spawned task reads the file as it is now. When the file parses the task
\* goes on to CONFIG.write(), where it waits for the read guard that main
\* holds from its start to its end; otherwise it logs the error and ends
Reload ==
    /\ reloadTasks > 0
    /\ reloadTasks' = reloadTasks - 1
    /\ IF read_config(configFile).ok
       THEN writers' = writers + 1
       ELSE UNCHANGED writers
    /\ UNCHANGED CONFIG
    /\ lastLoad' = load_result("reload", CONFIG, configFile)
    /\ UNCHANGED <<configFile, watching, served>>
    /\ UNCHANGED exceptConfig

\* a request takes CONFIG.read(), which is granted while no writer waits,
\* and reads the global configuration; the server runs once main has loaded
\* the configuration
Serve ==
    /\ lastLoad.kind # "none"
    /\ (lastLoad.kind = "load" => lastLoad.ok)
    /\ writers = 0
    /\ served' = CONFIG
    /\ lastLoad' = [lastLoad EXCEPT !.served_since = TRUE]
    /\ UNCHANGED <<CONFIG, configFile, watching, reloadTasks, writers>>
    /\ UNCHANGED exceptConfig

ConfigIdle ==
    /\ CONFIG = DefaultConfig
    /\ configFile = [readable |-> TRUE, extension |-> "yaml", syntax |-> "yaml",
                     config |-> "v1"]
    /\ watching = FALSE
    /\ reloadTasks = 0
    /\ writers = 0
    /\ lastLoad = NoLoad
    /\ served = ""

ConfigInit ==
    /\ CONFIG = DefaultConfig
    /\ configFile \in ConfigFiles
    /\ watching = FALSE
    /\ reloadTasks = 0
    /\ writers = 0
    /\ lastLoad = NoLoad
    /\ served = ""

ConfigNext ==
    \/ LoadConfig
    \/ \E file \in ConfigFiles, spawned \in BOOLEAN : FileChange(file, spawned)
    \/ Reload
    \/ Serve

\* The breaker middleware at rest
CBIdle ==
    /\ cbConfig = [failure_threshold |-> DefaultThreshold,
                   half_open_timeout_secs |-> 1]
    /\ breakers = [s \in {} |-> 0]
    /\ probeFailedAt = [s \in {} |-> 0]
    /\ cbNow = 0
    /\ cbReq = [r \in Slots |-> IdleReq]
    /\ cbOut = NoOut

\* ------------------------------------------------------------------------
\* Specifications
\* ------------------------------------------------------------------------
\* The breaker middleware under concurrent requests and passing time
Init == CBInit /\ PipeInit /\ RLInit /\ BucketIdle /\ SdInit /\ AuthIdle /\ ProxyIdle /\ ConfigIdle
    /\ LockIdle
    /\ TableIdle
    /\ RwIdle

Next == CBNext

Spec == Init /\ [][Next]_vars

\* The assembled gateway serving requests
InitPipe == CBIdle /\ PipeInit /\ RLInit /\ BucketIdle /\ SdInit /\ AuthIdle /\ ProxyIdle /\ ConfigIdle
    /\ LockIdle
    /\ TableIdle
    /\ RwIdle

SpecPipe == InitPipe /\ [][PipeNext]_vars

\* The rate-limit service under concurrent requests and passing time
InitRL == CBIdle /\ PipeInit /\ RLInit /\ BucketIdle /\ SdInit /\ AuthIdle /\ ProxyIdle /\ ConfigIdle
    /\ LockIdle
    /\ TableIdle
    /\ RwIdle

SpecRL == InitRL /\ [][RLNext]_vars

\* One limiter checked again and again while time passes
InitBucket == CBIdle /\ PipeInit /\ RLInit /\ BucketInit /\ SdInit /\ AuthIdle /\ ProxyIdle /\ ConfigIdle
    /\ LockIdle
    /\ TableIdle
    /\ RwIdle

SpecBucket == InitBucket /\ [][BucketNext]_vars

\* Service discovery under concurrent requests, refreshes and a registry
\* whose answers change
InitSd == CBIdle /\ PipeInit /\ RLInit /\ BucketIdle /\ SdInit /\ AuthIdle /\ ProxyIdle /\ ConfigIdle
    /\ LockIdle
    /\ TableIdle
    /\ RwIdle

SpecSd == InitSd /\ [][SdNext]_vars

\* The authentication entry applied to requests under each configuration
InitAuth == CBIdle /\ PipeInit /\ RLInit /\ BucketIdle /\ SdNew
            /\ registry \in [ServiceNames -> {SendError}] /\ AuthInit /\ ProxyIdle /\ ConfigIdle
    /\ LockIdle
    /\ TableIdle
    /\ RwIdle

SpecAuth == InitAuth /\ [][AuthNext]_vars

\* The proxy forwarding requests to an upstream that answers or fails
InitProxy == CBIdle /\ PipeInit /\ RLInit /\ BucketIdle /\ SdInit /\ AuthIdle /\ ProxyInit
             /\ ConfigIdle
    /\ LockIdle
    /\ TableIdle
    /\ RwIdle

SpecProxy == InitProxy /\ [][ProxyNext]_vars

\* The configuration loaded at start and reloaded as its file changes
InitConfig == CBIdle /\ PipeInit /\ RLInit /\ BucketIdle /\ SdInit /\ AuthIdle /\ ProxyIdle
              /\ ConfigInit
    /\ LockIdle
    /\ TableIdle
    /\ RwIdle

SpecConfig == InitConfig /\ [][ConfigNext]_vars

\* One breaker whose methods are called from several threads
InitLock == CBIdle /\ PipeInit /\ RLInit /\ BucketIdle /\ SdInit /\ AuthIdle /\ ProxyIdle
            /\ ConfigIdle
    /\ LockInit
    /\ TableIdle
    /\ RwIdle

SpecLock == InitLock /\ [][LockNext]_vars

\* The tables of breakers of the middlewares made by CircuitBreakerLayer
InitTable == CBIdle /\ PipeInit /\ RLInit /\ BucketIdle /\ SdInit /\ AuthIdle /\ ProxyIdle
             /\ ConfigIdle /\ LockIdle
    /\ TableInit
    /\ RwIdle

SpecTable == InitTable /\ [][TableNext]_vars

\* CONFIG between main, the requests and the reload tasks
InitRw == CBIdle /\ PipeInit /\ RLInit /\ BucketIdle /\ SdInit /\ AuthIdle /\ ProxyIdle
          /\ ConfigIdle /\ LockIdle /\ TableIdle
    /\ RwInit

SpecRw == InitRw /\ [][RwNext]_vars

\* ------------------------------------------------------------------------
\* Steps of the breaker middleware, as seen in a pair of states
\* ------------------------------------------------------------------------
\* call admits a new request in slot r and hands it to the inner service
AdmitStep(r) == cbReq[r].pc = "idle" /\ cbReq'[r].pc = "inner"

\* call refuses a new request and answers it at once
RefuseStep == cbReq' = cbReq /\ cbOut' # cbOut

\* the inner call of slot r completes, is recorded and handed back
CompleteStep(r) == cbReq[r].pc = "inner" /\ cbReq'[r].pc = "idle"

\* the breaker of the request of slot r before and after the step
Before(r) == breakers[cbReq[r].service_id]
After(r) == breakers'[cbReq[r].service_id]

\* check() is called on the existing breaker of service s in this step, and
\* admits or refuses
CheckAdmits(s) == \E r \in Slots : AdmitStep(r) /\ cbReq'[r].service_id = s
CheckRefuses(s) == RefuseStep /\ cbOut'.service_id = s
CheckStep(s) == s \in DOMAIN breakers /\ (CheckAdmits(s) \/ CheckRefuses(s))

\* time elapsed since the last failure of the breaker of s
Elapsed(s) == cbNow - breakers[s].last_failure_time

\* ------------------------------------------------------------------------
\* Claims
\* ------------------------------------------------------------------------

\* C1: a breaker created with failure_threshold N starts Closed with
\* failure_count 0, stays Closed through its first N-1 consecutive failures and
\* opens on the N-th: a table entry appears Closed with count 0, and a failure
\* recorded on a Closed breaker opens it exactly when the count reaches N.
C1_FreshBreakerOpensOnNth ==
    [][ /\ \A s \in DOMAIN breakers' \ DOMAIN breakers :
              /\ breakers'[s].state = Closed
              /\ breakers'[s].failure_count = 0
        /\ \A r \in Slots :
              (CompleteStep(r) /\ cbOut'.recorded = "failure"
                 /\ Before(r).state = Closed)
              => /\ After(r).failure_count = Before(r).failure_count + 1
                 /\ (After(r).state = Open
                       <=> After(r).failure_count = After(r).failure_threshold)
      ]_vars

\* C2: while the breaker is Closed, a recorded failure adds exactly 1 to
\* failure_count and opens the breaker iff the new count >= failure_threshold;
\* a recorded success sets failure_count to 0 and leaves the breaker Closed.
C2_ClosedCounting ==
    [][ \A r \in Slots :
          (CompleteStep(r) /\ Before(r).state = Closed)
          => /\ cbOut'.recorded = "failure"
                => /\ After(r).failure_count = Before(r).failure_count + 1
                   /\ After(r).state \in {Closed, Open}
                   /\ (After(r).state = Open
                         <=> After(r).failure_count >= After(r).failure_threshold)
             /\ cbOut'.recorded = "success"
                => /\ After(r).failure_count = 0
                   /\ After(r).state = Closed
      ]_vars

\* C2 witness: a failure was recorded on a Closed breaker that stayed Closed,
\* below its threshold.
C2_Witness ==
    /\ cbOut.recorded = "failure"
    /\ breakers[cbOut.service_id].state = Closed
    /\ breakers[cbOut.service_id].failure_count >= 1
    /\ breakers[cbOut.service_id].failure_count
         < breakers[cbOut.service_id].failure_threshold

\* C3: an Open breaker leaves Open only inside check(): check() moves it to
\* HalfOpen and admits the request exactly when now - last_failure_time >=
\* reset_timeout, otherwise refuses and leaves the breaker as it is; a step
\* that only advances time changes no breaker.
C3_OpenLeavesOnlyInCheck ==
    [][ /\ \A s \in DOMAIN breakers :
              breakers[s].state = Open
              => /\ breakers'[s].state # Open
                    => CheckAdmits(s) /\ breakers'[s].state = HalfOpen
                 /\ CheckStep(s)
                    => /\ CheckAdmits(s) <=> Elapsed(s) >= breakers[s].reset_timeout
                       /\ CheckAdmits(s) => breakers'[s].state = HalfOpen
                       /\ CheckRefuses(s) => breakers'[s] = breakers[s]
        /\ cbNow' # cbNow => breakers' = breakers
      ]_vars

\* C3 witness: an Open breaker was moved to HalfOpen by the check of a request
\* that is now with the inner service, reset_timeout after the last failure.
C3_Witness ==
    \E r \in Slots :
        /\ cbReq[r].pc = "inner"
        /\ breakers[cbReq[r].service_id].state = HalfOpen
        /\ cbNow - breakers[cbReq[r].service_id].last_failure_time
             >= breakers[cbReq[r].service_id].reset_timeout

\* C4: in HalfOpen check() admits the request and leaves the breaker alone; a
\* recorded success closes the breaker with failure_count 0; a recorded
\* failure opens it with last_failure_time set to the time of the failure.
C4_HalfOpenTransitions ==
    [][ /\ \A s \in DOMAIN breakers :
              (breakers[s].state = HalfOpen /\ CheckStep(s))
              => CheckAdmits(s) /\ breakers'[s] = breakers[s]
        /\ \A r \in Slots :
              (CompleteStep(r) /\ Before(r).state = HalfOpen)
              => /\ cbOut'.recorded = "success"
                    => /\ After(r).state = Closed
                       /\ After(r).failure_count = 0
                 /\ cbOut'.recorded = "failure"
                    => /\ After(r).state = Open
                       /\ After(r).last_failure_time = cbNow
      ]_vars

\* C4 witness: a probe admitted in HalfOpen failed and reopened the breaker at
\* the time of the failure.
C4_Witness ==
    /\ cbOut.recorded = "failure"
    /\ probeFailedAt[cbOut.service_id] >= 0
    /\ breakers[cbOut.service_id].state = Open
    /\ breakers[cbOut.service_id].last_failure_time
         = probeFailedAt[cbOut.service_id]

\* C5 as stated: once a HalfOpen probe has failed, check() is refused until
\* reset_timeout has elapsed since that failed probe, and admitted from then on.
C5_NextProbeAfterFailedProbe ==
    [][ \A s \in DOMAIN breakers :
          (breakers[s].state = Open /\ probeFailedAt[s] >= 0 /\ CheckStep(s))
          => (CheckAdmits(s)
                <=> cbNow - probeFailedAt[s] >= breakers[s].reset_timeout)
      ]_vars

\* C5 amended: a failed HalfOpen probe reopens the breaker with
\* last_failure_time at the failed probe; from then on check() is refused
\* while less than reset_timeout has elapsed since the failed probe, and is
\* admitted exactly when reset_timeout has elapsed since the latest failure
\* recorded on the breaker, which is the failed probe or a later failure.
C5_NextProbeAfterLatestFailure ==
    [][ /\ \A r \in Slots :
              (CompleteStep(r) /\ Before(r).state = HalfOpen
                 /\ cbOut'.recorded = "failure")
              => /\ After(r).state = Open
                 /\ After(r).last_failure_time = cbNow
        /\ \A s \in DOMAIN breakers :
              (breakers[s].state = Open /\ probeFailedAt[s] >= 0 /\ CheckStep(s))
              => /\ breakers[s].last_failure_time >= probeFailedAt[s]
                 /\ cbNow - probeFailedAt[s] < breakers[s].reset_timeout
                      => CheckRefuses(s)
                 /\ CheckAdmits(s) <=> Elapsed(s) >= breakers[s].reset_timeout
      ]_vars

\* C5 witness: after a failed probe a request was refused by the reopened
\* breaker, on which a later failure has been recorded, at a time when
\* reset_timeout since the failed probe has elapsed.
C5_Witness ==
    LET s == cbOut.service_id IN
    /\ cbOut = refused(s)
    /\ s \in DOMAIN breakers
    /\ breakers[s].state = Open
    /\ probeFailedAt[s] >= 0
    /\ breakers[s].last_failure_time > probeFailedAt[s]
    /\ cbNow - probeFailedAt[s] >= breakers[s].reset_timeout

\* C6: a request that check() refuses is answered 503 with the service id in
\* the body, the inner service is not called for it and neither
\* record_success nor record_failure is applied to the breaker.
C6_RefusedIsNotForwarded ==
    [][ \A s \in DOMAIN breakers :
          (breakers[s].state = Open /\ Elapsed(s) < breakers[s].reset_timeout
             /\ CheckStep(s))
          => /\ CheckRefuses(s)
             /\ cbOut'.response.kind = "ok"
             /\ cbOut'.response.status = 503
             /\ cbOut'.response.service = s
             /\ cbOut'.inner_calls = 0
             /\ cbOut'.recorded = "none"
             /\ breakers' = breakers
      ]_vars

\* C6 witness: a request refused by an Open breaker has its 503 answer.
C6_Witness ==
    /\ cbOut.response.status = 503
    /\ cbOut.response.service = cbOut.service_id
    /\ cbOut.inner_calls = 0
    /\ cbOut.service_id \in DOMAIN breakers
    /\ breakers[cbOut.service_id].state = Open

\* C7: every response of the inner service with a 2xx, 3xx or 4xx status is
\* recorded as a success (failure_count reset in Closed, a HalfOpen breaker
\* closed), every transport error or 5xx response is recorded as a failure.
C7_StatusClassRecorded ==
    [][ \A r \in Slots :
          CompleteStep(r)
          => LET resp == cbOut'.response IN
             /\ (resp.kind = "ok" /\ 200 <= resp.status /\ resp.status <= 499)
                => /\ cbOut'.recorded = "success"
                   /\ Before(r).state = Closed => After(r).failure_count = 0
                   /\ Before(r).state = HalfOpen => After(r).state = Closed
             /\ (resp.kind = "err" \/ resp.status >= 500)
                => cbOut'.recorded = "failure"
      ]_vars

\* C8: the 501 response of a gRPC route is operational for the breaker: it
\* never increases failure_count and never opens the breaker.
C8_NotImplementedIsOperational ==
    [][ \A r \in Slots :
          (CompleteStep(r) /\ cbOut'.response.status = 501)
          => /\ cbOut'.recorded # "failure"
             /\ After(r).failure_count = Before(r).failure_count
             /\ Before(r).state # Open => After(r).state # Open
      ]_vars

\* ------------------------------------------------------------------------
\* The order of the stages of a request
\* ------------------------------------------------------------------------
DeclaredOrder ==
    <<"trace", "metrics", "auth", "rate-limit", "circuit-breaker",
      "route-match", "proxy">>

IsDeclaredStage(stage) == \E i \in DOMAIN DeclaredOrder : DeclaredOrder[i] = stage

\* the declared stages among the stages a request has run, in the order run
DeclaredStagesRun(r) == SelectSeq(pipeReq[r].log, IsDeclaredStage)

ProxyInvoked(r) ==
    \E i \in DOMAIN pipeReq[r].log : pipeReq[r].log[i] = "proxy"

\* C9: every request the assembled gateway hands to the proxy has run the
\* stages trace, metrics, auth, rate-limit, circuit-breaker, route-match,
\* proxy in that order, and a request answered by the auth stage with an
\* error is never handed to the proxy.
C9_StagesInDeclaredOrder ==
    \A r \in PipeSlots :
        /\ ProxyInvoked(r) => DeclaredStagesRun(r) = DeclaredOrder
        /\ pipeReq[r].status = 401 => ~ProxyInvoked(r)

\* ------------------------------------------------------------------------
\* Steps of the rate-limit service
\* ------------------------------------------------------------------------
RLCallStep(r) == rlReq[r].pc = "idle" /\ rlReq'[r].pc = "future"

RLPollStep(r) == rlReq[r].pc = "future" /\ rlReq'[r].pc # "future"

RLDoneStep(r) == rlReq[r].pc = "inner" /\ rlReq'[r].pc = "idle"

\* a limiter has no token at time now: its next cell is not yet due
NoToken(l, now) == l.tat # 0 /\ now < l.tat - l.tau

\* the path limiter applicable to a path: a limiter whose prefix starts the
\* path, no limiter of a longer prefix doing so
ApplicablePath(path) ==
    { p \in DOMAIN rate_limit_layer.path_limiters :
        /\ starts_with(path, p)
        /\ ~\E q \in DOMAIN rate_limit_layer.path_limiters :
              starts_with(path, q) /\ Len(q) > Len(p) }

\* some limiter applicable to the request has no token now
SomeApplicableEmpty(req) ==
    \/ NoToken(rate_limit_layer.global_limiter, rlNow)
    \/ \E p \in ApplicablePath(req.path) :
          NoToken(rate_limit_layer.path_limiters[p], rlNow)
    \/ /\ req.ip \in DOMAIN rate_limit_layer.ip_limiters
       /\ NoToken(rate_limit_layer.ip_limiters[req.ip], rlNow)

FailedCheck(q) == ~q.global_check.ok \/ ~q.path_check.ok \/ ~q.ip_check.ok

\* C10: a request fails a check of the rate-limit stage iff the global
\* limiter, the path limiter of its longest matching prefix or the limiter
\* of its ip has no token when it is called; a request that failed a check
\* is answered 429 without a call of the inner service, any other request
\* is passed to the inner service exactly once.
C10_DeniedIffSomeLimiterEmpty ==
    [][ \A r \in RLSlots :
          /\ RLCallStep(r) =>
                (FailedCheck(rlReq'[r]) <=> SomeApplicableEmpty(rlReq'[r].req))
          /\ RLPollStep(r) =>
                IF FailedCheck(rlReq[r])
                THEN /\ rlOut'.status = TOO_MANY_REQUESTS
                     /\ rlOut'.inner_calls = 0
                     /\ rlReq'[r].pc = "idle"
                ELSE /\ rlReq'[r].pc = "inner"
                     /\ rlReq'[r].inner_calls = 1
                     /\ rlOut' = rlOut
          /\ RLDoneStep(r) => rlOut'.inner_calls = 1
      ]_vars

\* a request that failed a check has been answered 429 without a call of
\* the inner service, and a request that passed its checks is in the inner
\* service, called once
C10_Witness ==
    /\ rlOut.status = TOO_MANY_REQUESTS
    /\ rlOut.inner_calls = 0
    /\ \E r \in RLSlots : rlReq[r].pc = "inner" /\ rlReq[r].inner_calls = 1

\* ------------------------------------------------------------------------
\* Retry-After
\* ------------------------------------------------------------------------
\* the checks of a request that failed
FailedChecks(q) ==
    { c \in {q.global_check, q.path_check, q.ip_check} : ~c.ok }

\* the time left, in ticks, until the limiter of a failed check has a token
WaitTicks(c, now) == IF c.earliest > now THEN c.earliest - now ELSE 0

\* C11: every 429 of the rate limiter carries a Retry-After header of a
\* positive whole number of seconds that covers the wait until the next
\* token, the body carrying the same number; a request to /api/auth/login
\* (5 per second, burst 3) denied by that path rule alone gets 1.
C11_RetryAfterPositive ==
    [][ \A r \in RLSlots :
          (RLPollStep(r) /\ FailedCheck(rlReq[r])) =>
             /\ rlOut'.retry_after_header >= 1
             /\ rlOut'.retry_after = rlOut'.retry_after_header
             /\ \A c \in FailedChecks(rlReq[r]) :
                   rlOut'.retry_after_header * TicksPerSec >= WaitTicks(c, rlNow)
             /\ ( /\ rlReq[r].req.path = <<"/api/auth", "/login">>
                  /\ rlReq[r].global_check.ok /\ rlReq[r].ip_check.ok )
                => rlOut'.retry_after_header = 1
      ]_vars

\* the wait of a failed check as the response reports waits: whole seconds
WaitSeconds(c, now) == WaitTicks(c, now) \div TicksPerSec

\* C12: the retry_after of a denied request is the largest of the waits of
\* the checks that failed; a check that passed contributes nothing.
C12_RetryAfterIsMaxOfDenied ==
    [][ \A r \in RLSlots :
          (RLPollStep(r) /\ FailedCheck(rlReq[r])) =>
             LET waits == { WaitSeconds(c, rlNow) : c \in FailedChecks(rlReq[r]) }
             IN /\ rlOut'.retry_after \in waits
                /\ \A w \in waits : w <= rlOut'.retry_after
      ]_vars

\* a request denied by its path limiter, which has a token again within the
\* second, and by its ip limiter, which has none for a full second, was
\* answered with retry_after 1
C12_Witness ==
    /\ rlOut.status = TOO_MANY_REQUESTS
    /\ rlOut.denied_by = {"path", "ip"}
    /\ rlOut.retry_after = 1

\* ------------------------------------------------------------------------
\* Bursts
\* ------------------------------------------------------------------------
\* the burst size the limiter was made with
BurstSize(l) == l.tau \div l.t

C15_IpLimiterCreatedOnFirstUse ==
    [][ \A r \in RLSlots :
          RLCallStep(r) =>
             rlReq'[r].req.ip \in DOMAIN rate_limit_layer'.ip_limiters
      ]_vars

\* ------------------------------------------------------------------------
\* Steps of service discovery
\* ------------------------------------------------------------------------
\* a request starts a lookup, and Consul answers the lookup of a request
SdLookupStart(r) == sdReq[r].pc = "idle" /\ sdReq'[r].pc = "lookup"

SdLookupEnd(r) == sdReq[r].pc = "lookup" /\ sdReq'[r].pc = "idle"

\* the refresh task is done with a name
RefreshVisit(n) == n \in sdRefresh /\ n \notin sdRefresh'

\* the addresses Consul lists for a name at present, <<>> when it fails
RegistryAddresses(n) ==
    IF registry[n].kind = "ok" THEN catalog_addresses(registry[n].entries) ELSE <<>>

Members(seq) == { seq[i] : i \in DOMAIN seq }

\* C16: every entry of the discovery cache has at least one instance,
\* whatever the registry answered to the lookups and refreshes so far; a
\* lookup the registry answers with no usable instance gives its caller an
\* error and caches nothing, and no caller is ever handed an empty list.
C16_CachedEntriesNonEmpty ==
    /\ [](\A n \in DOMAIN services : services[n] # <<>>)
    /\ [](sdOut.ok => sdOut.addresses # <<>>)
    /\ [][ \A r \in SdCallers :
             (SdLookupEnd(r) /\ registry[sdReq[r].service_name].kind = "ok"
                /\ RegistryAddresses(sdReq[r].service_name) = <<>>)
             => (~sdOut'.ok /\ services' = services)
         ]_vars

\* a lookup was answered with an empty list and its caller got an error,
\* while the cache holds an entry
C16_Witness ==
    /\ sdOut.lookups = 1
    /\ ~sdOut.ok
    /\ sdOut.service_name \in ServiceNames
    /\ registry[sdOut.service_name] = Catalog(<<>>)
    /\ DOMAIN services # {}

\* C17: when the refresh task visits a cached service for which the
\* registry answers with instances, the cached list becomes the registry's
\* current list, so that an instance the registry no longer lists is gone
\* from the cache and from what Resolve returns.
C17_RefreshReplacesCachedList ==
    [][ \A n \in ServiceNames :
          (RefreshVisit(n) /\ RegistryAddresses(n) # <<>>)
          => (n \in DOMAIN services' /\ services'[n] = RegistryAddresses(n))
      ]_vars

C19_ResolveCacheThenRegistry ==
    [][ \A r \in SdSlots :
          /\ SdLookupStart(r) =>
                /\ ( sdReq'[r].service_name \notin DOMAIN services
                     \/ services[sdReq'[r].service_name] = <<>> )
                /\ services' = services
          /\ ( sdOut' # sdOut /\ sdOut'.caller = "resolve" /\ sdOut'.lookups = 0 ) =>
                /\ sdOut'.service_name \in DOMAIN services
                /\ sdOut'.ok
                /\ sdOut'.url \in Members(services[sdOut'.service_name])
                /\ services' = services
                /\ sdReq' = sdReq
          /\ SdLookupEnd(r) =>
                LET n == sdReq[r].service_name
                IN /\ sdOut'.lookups = 1
                   /\ IF RegistryAddresses(n) # <<>>
                      THEN /\ sdOut'.ok
                           /\ services' = insert(services, n, RegistryAddresses(n))
                           /\ sdOut'.url \in Members(RegistryAddresses(n))
                      ELSE ~sdOut'.ok /\ services' = services
      ]_vars

\* Resolve answered from a cached list of two instances, without a lookup,
\* with the second of them
C19_Witness ==
    /\ sdOut.caller = "resolve"
    /\ sdOut.ok
    /\ sdOut.lookups = 0
    /\ Len(sdOut.addresses) = 2
    /\ sdOut.url = sdOut.addresses[2]

\* C20: with no authentication method enabled, a request that neither the
\* path whitelist nor the ip whitelist covers is answered 503 and is not
\* forwarded.
C20_NoAuthMethodGives503 ==
    ( /\ authOut # NoAuthOut
      /\ ~authConfig.jwt_enabled
      /\ ~authConfig.api_key_enabled
      /\ ~authConfig.oauth2_enabled
      /\ ~\E p \in authConfig.path_whitelist : starts_with(authOut.request.path, p)
      /\ get_client_ip(authOut.request) \notin authConfig.ip_whitelist )
    => ( authOut.status = SERVICE_UNAVAILABLE /\ ~authOut.forwarded )

\* the request of authOut went through the auth stage with a path the
\* path whitelist covers
WhitelistedPath ==
    /\ authOut # NoAuthOut
    /\ \E p \in authConfig.path_whitelist : starts_with(authOut.request.path, p)

\* C21: a request whose path starts with an entry of the path whitelist
\* comes out of the auth stage without an error and without a principal,
\* handed to the next stage exactly once, whatever else it carries and
\* whichever method is enabled.
C21_WhitelistedPathPasses ==
    WhitelistedPath =>
        /\ authOut.error = ""
        /\ authOut.user_info = NoUserInfo
        /\ authOut.next_runs = 1

\* C22: a request without X-Forwarded-For and X-Real-IP whose socket peer
\* is in the ip whitelist bypasses authentication.
C22_PeerAddressBypasses ==
    ( /\ authOut # NoAuthOut
      /\ authOut.request.body_ok
      /\ authOut.request.x_forwarded_for = <<>>
      /\ authOut.request.x_real_ip = NoField
      /\ authOut.request.peer \in authConfig.ip_whitelist )
    => ( authOut.forwarded /\ authOut.error = "" )

\* the request of authOut was admitted by the JWT branch
AdmittedByJwt ==
    /\ authOut.forwarded
    /\ authConfig.jwt_enabled
    /\ ~\E p \in authConfig.path_whitelist : starts_with(authOut.request.path, p)
    /\ get_client_ip(authOut.request) \notin authConfig.ip_whitelist

\* C23: with verify_issuer set, a request is admitted by the JWT branch
\* only with a token whose iss is a member of allowed_issuers.
C23_IssuerMustBeAllowed ==
    ( AdmittedByJwt /\ authConfig.jwt.verify_issuer )
    => ( /\ authOut.request.token \in DOMAIN Tokens
         /\ Tokens[authOut.request.token].iss \in authConfig.jwt.allowed_issuers )

\* ------------------------------------------------------------------------
\* The proxy
\* ------------------------------------------------------------------------
\* the proxy has an upstream request under way
Sent == pxReq.pc = "sent"

\* the values an upstream request carries under a header name
HeaderValues(headers, name) ==
    { headers[i][2] : i \in { j \in DOMAIN headers : headers[j][1] = name } }

\* C24: the upstream request of an authenticated request carries, as
\* X-User-ID, X-Username and X-User-Roles, the user id, the username and the
\* comma-joined roles of its principal, and no other value.
C24_PrincipalHeaders ==
    ( Sent /\ pxReq.request.user_info # NoUserInfo )
    => LET headers == pxReq.client_req.headers
           user_info == pxReq.request.user_info
       IN /\ HeaderValues(headers, "x-user-id") = { <<user_info.user_id>> }
          /\ HeaderValues(headers, "x-username") = { <<user_info.username>> }
          /\ HeaderValues(headers, "x-user-roles") = { join(user_info.roles) }

\* the rules of a table whose path_prefix begins the path
MatchingRules(routes, path) ==
    { routes[i] : i \in { j \in DOMAIN routes : starts_with(path, routes[j].path_prefix) } }

\* C25: the rule applied to a path is the matching rule of the longest
\* path_prefix, in whatever order the table declares its rules.
C25_LongestPrefixWins ==
    Sent =>
        \A rule \in MatchingRules(pxConfig.routes, pxReq.request.path) :
            ( \A other \in MatchingRules(pxConfig.routes, pxReq.request.path) :
                  Len(other.path_prefix) <= Len(rule.path_prefix) )
            => pxReq.rule_id = rule.id

\* C26: under the rule of prefix /api/auth and replace_prefix "/", the
\* request /api/auth/ping?x=1 goes upstream as /ping?x=1.
C26_RewriteKeepsOneSlash ==
    ( /\ Sent
      /\ pxReq.rule_id = RuleAuth.id
      /\ pxReq.request.path = <<"/", "api", "/", "auth", "/", "ping">>
      /\ pxReq.request.query = <<"?", "x=1">> )
    => pxReq.client_req.path = <<"/", "ping", "?", "x=1">>

\* C27: a request whose body is larger than the limit is answered 413 and
\* no upstream request is made for it.
C27_OversizeBodyRejected ==
    /\ Sent => pxReq.request.body = "fits"
    /\ pxOut.request.body \in {"over_declared", "over_streamed"}
       => ( pxOut.response.status = PAYLOAD_TOO_LARGE /\ pxOut.sends = 0 )

\* C28: the response to the client has the upstream's status, all of its
\* header name/value pairs and its body; when the upstream's body cannot be
\* read the response is a 500.
C28_UpstreamResponseCopied ==
    pxOut.upstream.kind = "ok" =>
        IF pxOut.upstream.body_ok
        THEN /\ pxOut.response.status = pxOut.upstream.response.status
             /\ { pxOut.response.headers[i] : i \in DOMAIN pxOut.response.headers }
                  = { pxOut.upstream.response.headers[i] :
                        i \in DOMAIN pxOut.upstream.response.headers }
             /\ pxOut.response.body = pxOut.upstream.response.body
        ELSE pxOut.response.status = INTERNAL_SERVER_ERROR

IdempotentMethods == {"GET", "HEAD", "PUT", "DELETE", "OPTIONS"}

\* C29: when the upstream call of an idempotent method has failed with a
\* refused connection, a timeout or a reset, the error reaches the caller
\* only after 1 + max_retries sends.
C29_RetriedBeforeBadGateway ==
    ( /\ pxOut.upstream.kind = "err"
      /\ is_retryable_error(pxOut.upstream.error)
      /\ pxOut.client_req.method \in IdempotentMethods )
    => pxOut.sends = 1 + pxConfig.max_retries

\* ------------------------------------------------------------------------
\* Configuration reload
\* ------------------------------------------------------------------------
\* the reload task runs, and the file is such that the reload fails
FailedReloadStep ==
    /\ reloadTasks' = reloadTasks - 1
    /\ \/ ~configFile.readable
       \/ configFile.extension \notin {"yaml", "yml", "json"}
       \/ configFile.syntax = "none"
       \/ (configFile.extension = "json" /\ configFile.syntax = "yaml")

\* C30: a reload that fails, because the file cannot be read, has an
\* extension that is not supported, or does not parse, leaves the global
\* configuration as it was and holds up no request, and a request served
\* afterwards is served under that configuration.
C30_FailedReloadKeepsConfig ==
    /\ [][ FailedReloadStep => (CONFIG' = CONFIG /\ writers' = writers) ]_vars
    /\ [][ served' # served => served' = CONFIG ]_vars
    /\ []( (lastLoad.kind = "reload" /\ ~lastLoad.ok) => CONFIG = lastLoad.before )

\* a reload of a file that does not parse has failed after a configuration
\* was loaded from the file, and a request has since been served under the
\* configuration loaded before
C30_Witness ==
    /\ lastLoad.kind = "reload"
    /\ lastLoad.error = "parse"
    /\ lastLoad.served_since
    /\ CONFIG = "v1"
    /\ configFile.config = "v2"
    /\ served = "v1"

\* ------------------------------------------------------------------------
\* Outcomes recorded late, on a breaker that is Open
\* ------------------------------------------------------------------------
\* C36: a failure recorded while the breaker is Open keeps it Open, changes
\* nothing but last_failure_time, which becomes the time of that failure, and
\* check() on an Open breaker admits the next probe exactly when reset_timeout
\* has elapsed since the last_failure_time so set.
C36_LateFailureMovesLastFailure ==
    [][ /\ \A r \in Slots :
              (CompleteStep(r) /\ Before(r).state = Open
                 /\ cbOut'.recorded = "failure")
              => After(r) = [Before(r) EXCEPT !.last_failure_time = cbNow]
        /\ \A s \in DOMAIN breakers :
              (breakers[s].state = Open /\ CheckStep(s))
              => (CheckAdmits(s)
                    <=> cbNow - breakers[s].last_failure_time
                          >= breakers[s].reset_timeout)
      ]_vars

\* C36 witness: after a probe failed and reopened the breaker, the failure of
\* another request admitted earlier was recorded later, on the Open breaker.
C36_Witness ==
    LET s == cbOut.service_id IN
    /\ cbOut.recorded = "failure"
    /\ s \in DOMAIN breakers
    /\ breakers[s].state = Open
    /\ probeFailedAt[s] >= 0
    /\ breakers[s].last_failure_time = cbNow
    /\ cbNow > probeFailedAt[s]

\* C38: a success recorded while the breaker is Open leaves the breaker as
\* it is, Open with the same failure_count and last_failure_time.
C38_LateSuccessKeepsOpen ==
    [][ \A r \in Slots :
          (CompleteStep(r) /\ Before(r).state = Open
             /\ cbOut'.recorded = "success")
          => After(r) = Before(r)
      ]_vars

\* C38 witness: a request admitted before the breaker opened has completed
\* with a success while the breaker stays Open.
C38_Witness ==
    LET s == cbOut.service_id IN
    /\ cbOut.recorded = "success"
    /\ cbOut.inner_calls = 1
    /\ s \in DOMAIN breakers
    /\ breakers[s].state = Open

\* ------------------------------------------------------------------------
\* The limiters a request checks
\* ------------------------------------------------------------------------
\* limiter l2 is limiter l after one cell was taken from it at time now
TookOneCell(l, l2, now) ==
    l2 = [l EXCEPT !.tat = Max(IF l.tat = 0 THEN now + l.t ELSE l.tat, now) + l.t]

\* limiter l2 is limiter l after one check at time now: a cell taken if it
\* had one, else left as it was
CheckedOnce(l, l2, now) ==
    IF NoToken(l, now) THEN l2 = l ELSE TookOneCell(l, l2, now)

\* C34: a call checks each limiter applicable to the request exactly once
\* whatever the other checks answered: the global limiter, the path limiter
\* of the longest matching prefix and the limiter of the ip each lose one
\* cell if they had one, also when another of them denied the request, and
\* each check's answer is kept with the request.
C34_EveryApplicableLimiterChecked ==
    [][ \A r \in RLSlots :
          RLCallStep(r) =>
             LET q == rlReq'[r]
                 rl == rate_limit_layer
                 rl2 == rate_limit_layer'
             IN /\ CheckedOnce(rl.global_limiter, rl2.global_limiter, rlNow)
                /\ q.global_check.ok <=> ~NoToken(rl.global_limiter, rlNow)
                /\ \A p \in ApplicablePath(q.req.path) :
                      /\ CheckedOnce(rl.path_limiters[p], rl2.path_limiters[p], rlNow)
                      /\ q.path_check.ok <=> ~NoToken(rl.path_limiters[p], rlNow)
                /\ q.req.ip \in DOMAIN rl.ip_limiters =>
                      /\ CheckedOnce(rl.ip_limiters[q.req.ip],
                                     rl2.ip_limiters[q.req.ip], rlNow)
                      /\ q.ip_check.ok <=> ~NoToken(rl.ip_limiters[q.req.ip], rlNow)
      ]_vars

\* C34 witness: a request denied by the global limiter alone has taken the
\* cells of its path limiter and of the limiter of its ip.
C34_Witness ==
    \E r \in RLSlots :
        /\ rlReq[r].pc = "future"
        /\ ~rlReq[r].global_check.ok
        /\ rlReq[r].path_check.ok
        /\ rlReq[r].ip_check.ok
        /\ rlReq[r].req = [path |-> <<"/api/auth", "/login">>, ip |-> "10.0.0.1"]
        /\ rate_limit_layer.path_limiters[<<"/api/auth", "/login">>].tat # 0
        /\ rate_limit_layer.ip_limiters["10.0.0.1"].tat # 0

\* the prefixes of the path rules of the configuration that are disabled and
\* have no enabled rule
DisabledPrefixes ==
    { RLConfig.path_rules[i].path_prefix : i \in DOMAIN RLConfig.path_rules }
      \ { RLConfig.path_rules[i].path_prefix :
            i \in { j \in DOMAIN RLConfig.path_rules : RLConfig.path_rules[j].rule.enabled } }

\* C35: a call checks at most one path limiter, the one of the longest
\* prefix of the path that has a limiter; every other path limiter, those
\* of shorter matching prefixes included, is left as it was; a request
\* whose only matching path rules are disabled passes its path check.
C35_OnlyLongestPrefixChecked ==
    [][ \A r \in RLSlots :
          RLCallStep(r) =>
             LET q == rlReq'[r]
                 rl == rate_limit_layer
                 rl2 == rate_limit_layer'
             IN /\ Cardinality(ApplicablePath(q.req.path)) <= 1
                /\ \A p \in DOMAIN rl.path_limiters \ ApplicablePath(q.req.path) :
                      rl2.path_limiters[p] = rl.path_limiters[p]
                /\ ~q.path_check.ok =>
                      \E p \in ApplicablePath(q.req.path) :
                          NoToken(rl.path_limiters[p], rlNow)
                /\ DOMAIN rl.path_limiters \cap DisabledPrefixes = {}
                /\ (\A i \in DOMAIN RLConfig.path_rules :
                       starts_with(q.req.path, RLConfig.path_rules[i].path_prefix)
                         => ~RLConfig.path_rules[i].rule.enabled)
                      => q.path_check.ok
      ]_vars

\* C35 witness: requests to /api/auth/login have used up the limiter of
\* /api/auth/login, which denies the request at hand, while the limiter of
\* the shorter prefix /api/auth has never been checked.
C35_Witness ==
    \E r \in RLSlots :
        /\ rlReq[r].pc = "future"
        /\ rlReq[r].req.path = <<"/api/auth", "/login">>
        /\ ~rlReq[r].path_check.ok
        /\ rate_limit_layer.path_limiters[<<"/api/auth">>].tat = 0

\* ------------------------------------------------------------------------
\* The lock of the discovery cache
\* ------------------------------------------------------------------------
\* C37: while a call waits for the registry, no other call is kept from the
\* cache: a second request may start its own lookup of the same name or be
\* served another name from the cache; and the step that ends a lookup
\* changes the cache at most under the looked-up name, where it stores the
\* complete list of addresses of the answer it received or leaves the entry
\* as it was.
C37_LockHeldForInsertionOnly ==
    /\ [](\A r \in SdSlots : \A r2 \in SdSlots \ {r} :
            (sdReq[r].pc = "lookup" /\ sdReq[r2].pc = "idle")
            => \A n \in ServiceNames : ENABLED Resolve(r2, n))
    /\ [][ \A r \in SdSlots :
             SdLookupEnd(r) =>
                LET n == sdReq[r].service_name
                IN /\ DOMAIN services' \ {n} = DOMAIN services \ {n}
                   /\ \A m \in DOMAIN services \ {n} : services'[m] = services[m]
                   /\ n \in DOMAIN services' =>
                        \/ services'[n] = RegistryAddresses(n)
                        \/ n \in DOMAIN services /\ services'[n] = services[n]
         ]_vars

\* C37 witness: two requests missed the cache for one name and both asked
\* the registry; one has had its answer and stored it while the other still
\* waits, and the registry has come to list other addresses in between, a
\* second name being cached all the while.
C37_Witness ==
    LET n == sdOut.service_name IN
    /\ sdOut.caller = "resolve"
    /\ sdOut.ok
    /\ sdOut.lookups = 1
    /\ n \in DOMAIN services
    /\ services[n] = sdOut.addresses
    /\ \E r \in SdSlots :
          sdReq[r].pc = "lookup" /\ sdReq[r].service_name = n
    /\ RegistryAddresses(n) # <<>>
    /\ RegistryAddresses(n) # services[n]
    /\ DOMAIN services = ServiceNames

\* ------------------------------------------------------------------------
\* The identity the upstream is told
\* ------------------------------------------------------------------------
\* the number of headers of that name an upstream request carries
HeaderCount(headers, name) ==
    Cardinality({ j \in DOMAIN headers : headers[j][1] = name })

\* C39: the upstream request of a request without a principal carries no
\* X-User-ID, X-Username or X-User-Roles, and that of a request with a
\* principal carries exactly one X-User-ID, whose value is the principal's
\* user id, whatever headers the client sent.
C39_IdentityFromPrincipalOnly ==
    Sent =>
        LET headers == pxReq.client_req.headers
            user_info == pxReq.request.user_info
        IN IF user_info = NoUserInfo
           THEN /\ HeaderCount(headers, "x-user-id") = 0
                /\ HeaderCount(headers, "x-username") = 0
                /\ HeaderCount(headers, "x-user-roles") = 0
           ELSE /\ HeaderCount(headers, "x-user-id") = 1
                /\ HeaderValues(headers, "x-user-id") = { <<user_info.user_id>> }


\* the threads inside a method of the breaker, past self.state.write()
LkInside == {t \in LkThreads : lkThread[t].pc \notin {"idle", "wait"}}

\* what the method of thread t does to the breaker it found when called at
\* time tm
LkEffect(t, tm) ==
    LET th == lkThread[t]
    IN CASE th.op = "record_success" -> lkBreaker = record_success(th.before)
         [] th.op = "record_failure" -> lkBreaker = record_failure(th.before, tm)
         [] th.op = "check" ->
              /\ lkBreaker = check(th.before, tm).breaker
              /\ th.allowed = check(th.before, tm).allowed

\* C40: check, record_success and record_failure called concurrently on one
\* breaker never deadlock and each takes effect atomically. Some call under
\* way can always take its next step; the calls past self.state.write() are
\* at most one, the holder of the lock of state, and the locks of
\* failure_count and last_failure_time are held by that holder only; when a
\* call is about to return the breaker is the one the whole method makes of
\* the breaker it found; and once a failure was recorded no call finds the
\* breaker Closed with failure_count >= failure_threshold.
C40_CallsAtomicNoDeadlock ==
    /\ (\E t \in LkThreads : lkThread[t].pc # "idle")
          => \E t \in LkThreads :
                ENABLED (LkAcquire(t) \/ LkMatch(t) \/ LkSecond(t) \/ LkReturn(t))
    /\ Cardinality(LkInside) <= 1
    /\ \A t \in LkInside : lkLocks.state = t
    /\ lkLocks.failure_count \in LkInside \cup {0}
    /\ lkLocks.last_failure_time \in LkInside \cup {0}
    /\ \A t \in LkThreads :
          lkThread[t].pc = "done" => \E tm \in 0..lkNow : LkEffect(t, tm)
    /\ (lkFailed /\ lkLocks.state = 0)
          => ~(lkBreaker.state = Closed
               /\ lkBreaker.failure_count >= lkBreaker.failure_threshold)

\* a call of record_failure has opened the Closed breaker and is about to
\* return while another call of record_failure waits for the lock of state,
\* after an earlier failure was recorded
C40_Witness ==
    \E t \in LkThreads : \E t2 \in LkThreads \ {t} :
        /\ lkThread[t].pc = "done"
        /\ lkThread[t].op = "record_failure"
        /\ lkThread[t].before.state = Closed
        /\ lkBreaker.state = Open
        /\ lkThread[t2].pc = "wait"
        /\ lkThread[t2].op = "record_failure"
        /\ lkFailed


\* the breakers created for one service id
CreatedFor(service_id) ==
    {arc \in 1..Len(tbBreakers) : tbBreakers[arc].service_id = service_id}

\* C33: under any interleaving of first requests for one service id exactly
\* one breaker is created for that id and every request gets that same
\* breaker, so that the failures of all of them accumulate in one
\* failure_count.
C33_OneBreakerPerService ==
    /\ \A g1 \in tbGiven : \A g2 \in tbGiven : g1[1] = g2[1] => g1[2] = g2[2]
    /\ \A r \in TbSlots : tbReq[r].pc = "got" => Cardinality(CreatedFor(tbReq[r].service_id)) = 1
    /\ \A arc \in 1..Len(tbBreakers) : Cardinality(CreatedFor(tbBreakers[arc].service_id)) = 1


\* C31: no request observes a mix of the old and the new route table around
\* a reload: the rule that gave the request its route (target service, auth
\* requirement) and the rule that gives it its path rewrite come from the
\* same generation of the configuration.
C31_OneGenerationPerRequest ==
    \A r \in RwSlots :
       rwReq[r].pc = "sending" => rwReq[r].rewrite = rwReq[r].route

\* a write request of a reload stands in the queue ahead of the read
\* request of who
WriterAhead(who) ==
    \E i \in 1..Len(rwQueue) : \E j \in 1..Len(rwQueue) :
       /\ i < j
       /\ rwQueue[i].kind = "write"
       /\ rwQueue[j].kind = "read"
       /\ rwQueue[j].who = who

\* C32: readers on the request path never block on reload: a request that
\* waits for CONFIG.read(), in authenticate or in forward_http_request,
\* never has the write request of a reload ahead of it, so the request and
\* the reload never wait for each other.
C32_ReadersNeverBlockOnReload ==
    \A r \in RwSlots :
       rwReq[r].pc \in {"auth_wait", "proxy_wait"} => ~WriterAhead(r)

====
